---- MODULE Spec2Model ----
(***************************************************************************)
(* Research Orchestration Engine of LocalDeepResearch                      *)
(* (src/src/services/researchOrchestrator.ts).                             *)
(*                                                                         *)
(* Spec        one invocation of ResearchOrchestrator.research(): plan,    *)
(*             batched search/read, relevance scoring, hierarchical        *)
(*             synthesis inside the adaptive gap-filling loop, synthesis   *)
(*             deduplication and report generation, with the abort flag    *)
(*             being set by the environment at any moment.                 *)
(* SpecLive    Spec under the assumption that every awaited call settles.  *)
(* SpecScore   scoreSourceRelevance on its own, over a richer set of       *)
(*             completion responses.                                       *)
(* SpecIterations  Spec without abort, for every integer iteration setting.*)
(* SpecNumbers research() from relevance scoring on, over source lists     *)
(*             that the report writer's relevance filter shortens.         *)
(* SpecGaps    identifyKnowledgeGaps on its own, over a richer set of      *)
(*             completion responses.                                       *)
(* SpecReport  generateComprehensiveReport on its own, over a richer set   *)
(*             of section texts.                                           *)
(* SpecDedup   deduplicateReportSections applied twice to report sections  *)
(*             built from word-level sentences.                            *)
(* SpecGather  source gathering and gap-filling searches with more URLs    *)
(*             than maxSources.                                            *)
(* SpecTotals  the runs of SpecGather up to the returned report.           *)
(* SpecPlan    createSearchPlan on its own, over a richer set of response  *)
(*             lines.                                                      *)
(* SpecApp     the App component (src/src/App.tsx) starting, cancelling    *)
(*             and restarting runs, a run seen from its caller.            *)
(* SpecBudget  the synthesis text each completion call puts in its prompt, *)
(*             texts seen through their lengths.                           *)
(*                                                                         *)
(* Every action is one resumption of the async flow: an optional           *)
(* cancellation checkpoint followed by the external calls awaited before   *)
(* the next checkpoint.  The abort flag is only read at checkpoints, so an *)
(* abort raised while a call is in flight is the Abort action taken right  *)
(* after the action that issues the call.                                  *)
(* A local that the code does not read again (the results of a finished   *)
(* batch, the gaps of a finished round, everything once research() has     *)
(* settled) is cleared.                                                    *)
(***************************************************************************)
EXTENDS Integers, Sequences, FiniteSets, TLC

\* ------------------------------------------------------------------------
\* Bounds of the model
\* ------------------------------------------------------------------------
NumUrls == 1            \* distinct URLs the search client can return
MaxResults == 1         \* longest result list of one search response
SourceCap == 1          \* scaled maxSources of the smallest profile
QueryCap == 2           \* scaled maxSearchQueries of every profile
MaxUserIter == 3        \* largest maxResearchIterations drawn
MaxGapsRun == 1         \* longest gap list of a gap-analysis response in Spec
MaxGapQueries == 2      \* most suggestedQueries of one gap
MaxScoreList == 1       \* longest score array of a scoring response in Spec

\* ------------------------------------------------------------------------
\* Program constants
\* ------------------------------------------------------------------------
MAX_CONTEXT_CHARS == 32000
MAX_SYNTHESIS_BATCH == 5
OutlineSynthesisChars == 8000
MinRemainingChars == 500
ScoreBatchSize == 10
DefaultScore == 5
MinGapImportance == 5
GapResultsPerQuery == 3
MinUserIter == 1
MinFilteredSources == 10
MinReportRelevance == 2
MinOutline == 3

Urls == 1..NumUrls

VARIABLES
    cfg,            \* this.config + this.intensityConfig
    aborted,        \* abortSignal.aborted
    pc,             \* position of research()
    outcome,        \* "pending" | "resolved" | "rejected"
    err,            \* message class of the rejection
    planResponse,   \* response.content of createSearchPlan's chat call, in lines
    searchPlan,     \* searchPlan
    batchStart,     \* loop variable of the batch loop (0-based)
    batchResults,   \* the searches of the current batch, in query order
    allSources,     \* allSources
    seenUrls,       \* seenUrls
    totalSearches,  \* totalSearches
    iteration,      \* iteration
    level,          \* synthesis levels completed in the current pass
    sumI,           \* loop variable of summarizeSources / scoreSourceRelevance
    gaps,           \* gaps returned by identifyKnowledgeGaps
    gapIdx, qIdx,   \* position of searchForGaps
    newSources,     \* newSources of the current gap-filling round
    outline,        \* sanitized outline of the section-by-section report
    si, ci,         \* section loop / compression loop position
    sections,       \* allSections
    report,         \* the value research() resolved with
    sourceList,     \* sourceList of the report writer, line by line
    synthPasses,    \* hierarchicalSynthesis invocations
    gapCalls,       \* identifyKnowledgeGaps invocations
    anySearchOk,    \* some search call of the run fulfilled
    gapSearched,    \* searchForGaps issued a search call
    gapDup,         \* a gap-filling search returned a URL seen before
    abortStage,     \* stage of the run at the moment the abort flag was set
    calls,          \* how often each search and fetch was issued
    synthSources,   \* the sources argument of the last hierarchicalSynthesis call
    app,            \* the App component: its React state, its refs, its runs
    dedupInput,     \* the sections handed to deduplicateReportSections
    prompt          \* a completion call that carries synthesis text

vars == <<cfg, aborted, pc, outcome, err, planResponse, searchPlan, batchStart,
          batchResults, allSources, seenUrls, totalSearches,
          iteration, level, sumI, gaps, gapIdx, qIdx, newSources, outline,
          si, ci, sections, report, sourceList, synthPasses, gapCalls, anySearchOk,
          gapSearched, gapDup, abortStage, calls, synthSources,
          app, dedupInput, prompt>>

\* ------------------------------------------------------------------------
\* Helpers
\* ------------------------------------------------------------------------
Min(a, b) == IF a < b THEN a ELSE b

Range(s) == {s[i] : i \in 1..Len(s)}

\* Array.prototype.slice(0, n)
Take(s, n) == SubSeq(s, 1, Min(n, Len(s)))

SeqsUpTo(S, n) == UNION {[1..k -> S] : k \in 0..n}

\* ------------------------------------------------------------------------
\* Configuration
\* ------------------------------------------------------------------------
Intensities == {"quick", "standard", "deep", "comprehensive", "exhaustive"}

\* INTENSITY_CONFIGS: synthesisLevels and adaptiveIterations as in the
\* source, the fan-out knobs scaled down to the bounds of the model.
INTENSITY_CONFIGS ==
    [i \in Intensities |->
        CASE i = "quick" ->
               [maxSources |-> SourceCap, maxSearchQueries |-> QueryCap,
                parallelSearches |-> 1, sourcesPerSearch |-> 1,
                synthesisLevels |-> 1, adaptiveIterations |-> 1,
                gapQueriesPerIteration |-> 1]
          [] i = "standard" ->
               [maxSources |-> SourceCap + 1, maxSearchQueries |-> QueryCap,
                parallelSearches |-> 2, sourcesPerSearch |-> 2,
                synthesisLevels |-> 2, adaptiveIterations |-> 2,
                gapQueriesPerIteration |-> 1]
          [] i = "deep" ->
               [maxSources |-> SourceCap + 1, maxSearchQueries |-> QueryCap,
                parallelSearches |-> 2, sourcesPerSearch |-> 2,
                synthesisLevels |-> 3, adaptiveIterations |-> 3,
                gapQueriesPerIteration |-> 2]
          [] i = "comprehensive" ->
               [maxSources |-> SourceCap + 1, maxSearchQueries |-> QueryCap,
                parallelSearches |-> 2, sourcesPerSearch |-> 2,
                synthesisLevels |-> 4, adaptiveIterations |-> 3,
                gapQueriesPerIteration |-> 2]
          [] OTHER ->
               [maxSources |-> SourceCap + 1, maxSearchQueries |-> QueryCap,
                parallelSearches |-> 2, sourcesPerSearch |-> 2,
                synthesisLevels |-> 4, adaptiveIterations |-> 4,
                gapQueriesPerIteration |-> 2]]

getIntensityConfig(intensity) == INTENSITY_CONFIGS[intensity]

intensityConfig == getIntensityConfig(cfg.intensity)

DetailLevels == {"standard", "detailed"}

ResearchConfigs ==
    [intensity : Intensities,
     enableAdaptiveResearch : BOOLEAN,
     maxResearchIterations : MinUserIter..MaxUserIter,
     reportDetailLevel : DetailLevels]

\* Faulty variant: the iteration cap taken from the user's setting alone
UserIterations == cfg.maxResearchIterations

\* research(): const maxIterations = enableAdaptiveResearch ? Math.min(..) : 1
maxIterations ==
    IF cfg.enableAdaptiveResearch
    THEN Min(cfg.maxResearchIterations, intensityConfig.adaptiveIterations)
    ELSE 1

\* research(): const totalQueries = Math.min(searchPlan.length, maxSearchQueries)
totalQueries == Min(Len(searchPlan), intensityConfig.maxSearchQueries)


\* ------------------------------------------------------------------------
\* createSearchPlan
\* ------------------------------------------------------------------------
\* A line of the planning response: its characters, the line after trim(),
\* the trimmed line in lower case, and whether the trimmed line matches
\* /^\d+[\.\)]/.
Line(raw, trimmed, lower, numbered) ==
    [raw |-> raw, trimmed |-> trimmed, lower |-> lower, numbered |-> numbered]

\* A search query and its lower-case form
Q(text, lower) == [text |-> text, lower |-> lower]

\* The (possibly clarified) query handed to createSearchPlan
ResearchQuery == Q("AI safety", "ai safety")

AnyQuery(q, query) == TRUE

\* q.toLowerCase() !== query.toLowerCase()
DiffersFromQuery(q, query) == q.lower # query.lower

\* The lines trimmed, the empty and the numbered ones dropped, the first
\* targetQueries of the rest kept; the query first, then the kept lines that
\* differ from it.
createSearchPlan(query, content, targetQueries) ==
    LET kept == SelectSeq(content, LAMBDA l : l.trimmed # "" /\ ~l.numbered)
        queries == Take(kept, targetQueries)
        others == SelectSeq(queries, LAMBDA l : DiffersFromQuery(l, query))
    IN <<query>> \o [i \in 1..Len(others) |-> Q(others[i].trimmed, others[i].lower)]

PlainLine == Line("AI regulation", "AI regulation", "ai regulation", FALSE)

\* Planning responses drawn in Spec: up to QueryCap usable lines
PlanResponsesRun == {[i \in 1..k |-> PlainLine] : k \in 0..QueryCap}

\* ------------------------------------------------------------------------
\* The external collaborators
\* ------------------------------------------------------------------------
\* SearchService.search: rejects, or fulfils with a ranked result list.
SearchOutcomesOver(urls, maxResults) ==
    {[st |-> "failed", urls |-> <<>>]} \cup
    {[st |-> "ok", urls |-> u] : u \in SeqsUpTo(urls, maxResults)}

SearchOutcomes == SearchOutcomesOver(Urls, MaxResults)

\* What the collaborators hold for a URL: the content field of its search
\* result, and what fetchPageContent yields for it ('' when the fetch
\* fails).  URL 1 has both, URL 2 a snippet only, URL 3 a page only, URL 4
\* neither, and so on.
SnippetOf(u) == IF u % 4 \in {1, 2} THEN "snippet" ELSE ""
PageOf(u) == IF u % 2 = 1 THEN "page" ELSE ""

\* A search call of the current batch; at is its rank among the settled
\* calls of the batch, 0 while it is pending.
PendingSearch == [st |-> "pending", urls |-> <<>>, at |-> 0]

\* Faulty variant: the search promise used without its .catch
SearchAsIs(o) == o

\* research(): this.searchService.search(q).catch(() => ({ results: [] }))
SearchOrEmpty(o) == IF o.st = "failed" THEN [st |-> "ok", urls |-> <<>>] ELSE o

\* A completion response read by a JSON-array parser of the engine:
\*   reject     the chat call rejects
\*   prose      the text holds no match of the call site's pattern
\*   malformed  the pattern matches and JSON.parse throws ("[1,,2]", "[01]")
\*   list       the pattern's first candidate, item by item
ArrayResponse(kind, items) == [kind |-> kind, items |-> items]

NoArrayResponses ==
    {ArrayResponse(k, <<>>) : k \in {"reject", "prose", "malformed"}}

\* ------------------------------------------------------------------------
\* scoreSourceRelevance
\* ------------------------------------------------------------------------
\* a || b on strings
OrElse(a, b) == IF a # "" THEN a ELSE b

\* The source pushed for the search result of URL u (research 185-191,
\* searchForGaps 1396-1402), not yet scored
Source(u) ==
    [url |-> u,
     snippet |-> OrElse(SnippetOf(u), ""),
     content |-> OrElse(PageOf(u), OrElse(SnippetOf(u), "")),
     relevanceScore |-> 0]

\* response.content.match(/\[[\d,\s]+\]/)?.[0] || '[]', then JSON.parse:
\* an item below 0 stands for a token with a sign or a fraction, which the
\* character class [\d,\s] does not admit, so the pattern finds no match.
ParseScores(resp) ==
    IF resp.kind = "list" /\ \A i \in 1..Len(resp.items) : resp.items[i] >= 0
    THEN resp.items
    ELSE <<>>

\* scores[idx] || 5
ScoreOf(scores, idx) ==
    IF idx <= Len(scores) /\ scores[idx] # 0 THEN scores[idx] ELSE DefaultScore

\* One batch of scoreSourceRelevance: the try block, or the catch block when
\* the chat call rejects or JSON.parse throws.
ScoreBatch(resp, batch) ==
    IF resp.kind \in {"reject", "malformed"}
    THEN [i \in 1..Len(batch) |-> [batch[i] EXCEPT !.relevanceScore = DefaultScore]]
    ELSE [i \in 1..Len(batch) |->
            [batch[i] EXCEPT !.relevanceScore = ScoreOf(ParseScores(resp), i)]]

\* sources.slice(i, i + batchSize), i 0-based
Slice(s, i, n) == SubSeq(s, i + 1, Min(i + n, Len(s)))

\* Faulty variant: the loop variable of a batch loop does not advance
SameOffset(i, batchSize) == i

\* for (let i = 0; i < sources.length; i += batchSize)
NextOffset(i, batchSize) == i + batchSize

\* The sources with the batch at offset i replaced by its scored copy.
WithScoredBatch(s, i, resp) ==
    SubSeq(s, 1, i) \o ScoreBatch(resp, Slice(s, i, ScoreBatchSize)) \o
    SubSeq(s, Min(i + ScoreBatchSize, Len(s)) + 1, Len(s))

\* allSources.sort((a, b) => (b.relevanceScore || 0) - (a.relevanceScore || 0)):
\* descending and stable.
RECURSIVE InsertByScore(_, _)
InsertByScore(sorted, x) ==
    IF sorted = <<>> THEN <<x>>
    ELSE IF Head(sorted).relevanceScore >= x.relevanceScore
         THEN <<Head(sorted)>> \o InsertByScore(Tail(sorted), x)
         ELSE <<x>> \o sorted

\* Faulty variant: the list left in the order of arrival
Unsorted(s) == s

RECURSIVE SortByScore(_)
SortByScore(s) ==
    IF s = <<>> THEN <<>>
    ELSE InsertByScore(SortByScore(SubSeq(s, 1, Len(s) - 1)), s[Len(s)])

\* The completion responses drawn for a batch of n sources: the failure
\* classes and the arrays of at most maxLen of the given items.
ScoreResponses(items, maxLen, n) ==
    NoArrayResponses \cup
    {ArrayResponse("list", a) : a \in SeqsUpTo(items, Min(n, maxLen))}

\* Array items drawn in Spec
ScoreItemsRun == {0, 9}

\* ------------------------------------------------------------------------
\* identifyKnowledgeGaps
\* ------------------------------------------------------------------------
\* A parsed gap object: its importance, the length of its suggestedQueries
\* array, and whether it has the fields searchForGaps reads (a
\* suggestedQueries array and a description string).
Gap(imp, nq) == [importance |-> imp, nq |-> nq, wellFormed |-> TRUE]

\* A gap object without suggestedQueries array or description string
BadGap(imp) == [importance |-> imp, nq |-> 0, wellFormed |-> FALSE]

\* gaps.filter(g => g.importance >= 5), or [] when nothing parses
IdentifyGaps(resp) ==
    IF resp.kind = "list"
    THEN SelectSeq(resp.items, LAMBDA g : g.importance >= MinGapImportance)
    ELSE <<>>

GapImportances == {MinGapImportance - 1, MinGapImportance}
GapsDrawn == {Gap(i, n) : i \in GapImportances, n \in 0..MaxGapQueries}
GapResponsesRun ==
    NoArrayResponses \cup
    {ArrayResponse("list", g) : g \in SeqsUpTo(GapsDrawn, MaxGapsRun)}


\* ------------------------------------------------------------------------
\* The calls issued so far
\* ------------------------------------------------------------------------
\* fetches: per URL, the fetchPageContent calls of the run; issued: per
\* position of the search plan, the search calls of the batch loop;
\* gapIssued: per <<gap, query>> position, the search calls of the current
\* searchForGaps invocation; searches: the search calls of the run.
NoCalls == [fetches |-> <<>>, issued |-> <<>>, gapIssued |-> <<>>, searches |-> 0]

\* one more call under key k
Bump(f, k) == IF k \in DOMAIN f THEN [f EXCEPT ![k] = @ + 1] ELSE f @@ (k :> 1)

\* one more call under every key of a list
RECURSIVE BumpEach(_, _)
BumpEach(f, keys) ==
    IF keys = <<>> THEN f ELSE BumpEach(Bump(f, Head(keys)), Tail(keys))

\* ------------------------------------------------------------------------
\* The App component (src/src/App.tsx)
\* ------------------------------------------------------------------------
\* state, steps, currentStep, report, error: the React state of App; a step
\* and a report are seen through the run they come from, 0 is null.
\* controller: the run whose AbortController abortControllerRef holds.
\* runs: the invocations of orchestrator.research() so far, each with its
\* abort signal and the state of its promise.
NoApp == [state |-> "idle", steps |-> <<>>, currentStep |-> 0, report |-> 0,
          error |-> FALSE, controller |-> 0, runs |-> <<>>]

\* ------------------------------------------------------------------------
\* Frames
\* ------------------------------------------------------------------------
abortVars == <<aborted, abortStage>>
planVars == <<planResponse, searchPlan, batchStart, batchResults>>
sourceVars == <<allSources, seenUrls, totalSearches>>
synthVars == <<iteration, level, sumI>>
gapVars == <<gaps, gapIdx, qIdx, newSources>>
reportVars == <<outline, si, ci, sections, report, sourceList>>
countVars == <<synthPasses, gapCalls, anySearchOk, gapSearched, gapDup>>
\* read and written by the specifications of single functions only
sideVars == <<dedupInput, prompt, app>>

NoReport == [sources |-> <<>>, sections |-> <<>>, totalSources |-> 0,
             totalSearches |-> 0]

\* The locals of research() and of its callees, as they are before the run
\* and once they are out of scope.
LocalsCleared ==
    /\ planResponse' = <<>>
    /\ searchPlan' = <<>>
    /\ batchStart' = 0
    /\ batchResults' = <<>>
    /\ allSources' = <<>>
    /\ seenUrls' = {}
    /\ totalSearches' = 0
    /\ iteration' = 1
    /\ level' = 0
    /\ sumI' = 0
    /\ gaps' = <<>>
    /\ gapIdx' = 1
    /\ qIdx' = 1
    /\ newSources' = <<>>
    /\ outline' = <<>>
    /\ si' = 1
    /\ ci' = 1
    /\ sections' = <<>>
    /\ sourceList' = <<>>
    /\ calls' = NoCalls

\* The promise of research() rejects with an error of class e.
Throw(e) ==
    /\ pc' = "done"
    /\ outcome' = "rejected"
    /\ err' = e
    /\ LocalsCleared
    /\ synthSources' = <<>>
    /\ UNCHANGED <<cfg, sideVars, abortVars, report, countVars>>

\* Faulty variant: a checkpoint that is missing
NoCheck == FALSE

\* if (abortSignal?.aborted) throw new Error('Research cancelled'), per site
CheckBeforeBatch == aborted
CheckAfterGather == aborted
CheckLoopHead == aborted
CheckSynthLevel == aborted
CheckGapQuery == aborted
CheckAfterLoop == aborted

\* ------------------------------------------------------------------------
\* research(): planning and the batched search / read stage
\* ------------------------------------------------------------------------
\* await this.createSearchPlan(refinedQuery): [query, ...at most N others]
Plan(responses) ==
    /\ pc = "plan"
    /\ \/ Throw("completion")
       \/ /\ \E r \in responses :
                /\ planResponse' = r
                /\ searchPlan' = createSearchPlan(ResearchQuery, r,
                                                  intensityConfig.maxSearchQueries)
          /\ pc' = "batch"
          /\ UNCHANGED <<cfg, sideVars, calls, synthSources, abortVars, outcome, err, batchStart,
                         batchResults, sourceVars, synthVars, gapVars,
                         reportVars, countVars>>

NeverFull(sources, cap) == FALSE

\* allSources.length >= this.intensityConfig.maxSources
Full(sources, cap) == Len(sources) >= cap

\* The head of the batch loop: the checkpoint, the maxSources break and the
\* concurrent issue of the batch; on leaving the loop, the checkpoint before
\* relevance scoring.
BatchStart ==
    /\ pc = "batch"
    /\ LET inLoop == batchStart < totalQueries
           full == Full(allSources, intensityConfig.maxSources)
           batchEnd == Min(batchStart + intensityConfig.parallelSearches,
                           totalQueries)
       IN IF inLoop /\ CheckBeforeBatch THEN Throw("cancelled")
          ELSE IF inLoop /\ ~full
          THEN /\ batchResults' = [k \in 1..(batchEnd - batchStart) |-> PendingSearch]
               /\ calls' = [calls EXCEPT
                               !.issued = BumpEach(@, [k \in 1..(batchEnd - batchStart) |->
                                                          batchStart + k]),
                               !.searches = @ + (batchEnd - batchStart)]
               /\ pc' = "searching"
               /\ UNCHANGED <<cfg, sideVars, synthSources, abortVars, outcome, err, planResponse, searchPlan,
                              batchStart, sourceVars, synthVars, gapVars,
                              reportVars, countVars>>
          ELSE IF CheckAfterGather THEN Throw("cancelled")
          ELSE /\ pc' = "score"
               /\ sumI' = 0
               /\ planResponse' = <<>>
               /\ searchPlan' = <<>>
               /\ batchStart' = 0
               /\ calls' = [calls EXCEPT !.issued = <<>>]
               /\ UNCHANGED <<cfg, sideVars, synthSources, abortVars, outcome, err, batchResults,
                              sourceVars, iteration, level, gapVars,
                              reportVars, countVars>>

\* the number of settled calls of a batch
Settled(results) ==
    Cardinality({k \in 1..Len(results) : results[k].st # "pending"})

\* One search call of the batch settles.
SearchSettle(outcomes) ==
    /\ pc = "searching"
    /\ \E k \in 1..Len(batchResults) : \E o \in outcomes :
          /\ batchResults[k].st = "pending"
          /\ batchResults' =
                [batchResults EXCEPT ![k] =
                    [st |-> SearchOrEmpty(o).st, urls |-> SearchOrEmpty(o).urls,
                     at |-> Settled(batchResults) + 1]]
          /\ anySearchOk' = (anySearchOk \/ o.st = "ok")
    /\ UNCHANGED <<cfg, sideVars, calls, synthSources, abortVars, pc, outcome, err, planResponse, searchPlan, batchStart,
                   sourceVars, synthVars, gapVars, reportVars, synthPasses,
                   gapCalls, gapSearched, gapDup>>

\* Faulty variant: a URL is never recognised as seen
NeverSeen(url, seen) == FALSE

\* seenUrls.has(url)
Seen(url, seen) == url \in seen

\* The inner loop over one result list, acc = [sources, seen, fetches]: continue on
\* a seen URL, break at maxSources, else mark the URL, fetch and append.
RECURSIVE AddItems(_, _, _)
AddItems(acc, items, cap) ==
    IF items = <<>> THEN acc
    ELSE IF Seen(Head(items), acc.seen) THEN AddItems(acc, Tail(items), cap)
    ELSE IF Full(acc.sources, cap) THEN acc
    ELSE AddItems([sources |-> Append(acc.sources, Source(Head(items))),
                   seen |-> acc.seen \cup {Head(items)},
                   fetches |-> Bump(acc.fetches, Head(items))],
                  Tail(items), cap)

\* The outer loop over the batch's results, in query order.
RECURSIVE AddResults(_, _, _, _)
AddResults(acc, results, perSearch, cap) ==
    IF results = <<>> THEN acc
    ELSE AddResults(AddItems(acc, Take(Head(results).urls, perSearch), cap),
                    Tail(results), perSearch, cap)

\* Faulty variant: the results taken in the order the calls settled
InCompletionOrder(results) ==
    [i \in 1..Len(results) |->
        results[CHOOSE k \in 1..Len(results) : results[k].at = i]]

\* The array Promise.all fulfils with: the results at the positions of
\* their queries in batchQueries
InQueryOrder(results) == results

\* Faulty variant: the coordinator resumes once one call has settled
SomeSettled(results) == \E k \in 1..Len(results) : results[k].st # "pending"

\* Promise.all(...) fulfils once every promise of the batch has
AllSettled(results) == \A k \in 1..Len(results) : results[k].st # "pending"

\* await Promise.all(...) resumes: it rejects when a search of the batch
\* rejected; else totalSearches += batchQueries.length, the batch's results
\* are processed (fetchPageContent never rejects) and the loop steps.
BatchJoin ==
    /\ pc = "searching"
    /\ AllSettled(batchResults)
    /\ IF \E k \in 1..Len(batchResults) : batchResults[k].st = "failed"
       THEN Throw("search")
       ELSE LET acc == AddResults([sources |-> allSources, seen |-> seenUrls,
                                   fetches |-> calls.fetches],
                                  InQueryOrder(batchResults),
                                  intensityConfig.sourcesPerSearch,
                                  intensityConfig.maxSources)
            IN /\ totalSearches' = totalSearches + Len(batchResults)
               /\ allSources' = acc.sources
               /\ seenUrls' = acc.seen
               /\ calls' = [calls EXCEPT !.fetches = acc.fetches]
               /\ batchStart' = batchStart + intensityConfig.parallelSearches
               /\ batchResults' = <<>>
               /\ pc' = "batch"
               /\ UNCHANGED <<cfg, sideVars, synthSources, abortVars, outcome, err, planResponse, searchPlan,
                              synthVars, gapVars, reportVars, countVars>>

\* ------------------------------------------------------------------------
\* research(): relevance scoring of the gathered sources
\* ------------------------------------------------------------------------
ScoreStep(items, maxLen) ==
    /\ pc = "score"
    /\ sumI < Len(allSources)
    /\ \E resp \in ScoreResponses(items, maxLen,
                                   Len(Slice(allSources, sumI, ScoreBatchSize))) :
          allSources' = WithScoredBatch(allSources, sumI, resp)
    /\ sumI' = NextOffset(sumI, ScoreBatchSize)
    /\ UNCHANGED <<cfg, sideVars, calls, synthSources, abortVars, pc, outcome, err, planVars, seenUrls,
                   totalSearches, iteration, level, gapVars, reportVars,
                   countVars>>

ScoreDone ==
    /\ pc = "score"
    /\ sumI >= Len(allSources)
    /\ allSources' = SortByScore(allSources)
    /\ iteration' = 1
    /\ sumI' = 0
    /\ pc' = "loop"
    /\ UNCHANGED <<cfg, sideVars, calls, synthSources, abortVars, outcome, err, planVars, seenUrls,
                   totalSearches, level, gapVars, reportVars, countVars>>


\* ------------------------------------------------------------------------
\* research(): hierarchical synthesis inside the adaptive loop
\* ------------------------------------------------------------------------
\* while (iteration <= maxIterations): the checkpoint, then
\* hierarchicalSynthesis is entered.
LoopHead ==
    /\ pc = "loop"
    /\ IF iteration <= maxIterations
       THEN IF CheckLoopHead THEN Throw("cancelled")
            ELSE /\ synthPasses' = synthPasses + 1
                 /\ synthSources' = allSources
                 /\ level' = 0
                 /\ sumI' = 0
                 /\ newSources' = <<>>
                 /\ pc' = "summarize"
                 /\ UNCHANGED <<cfg, sideVars, calls, abortVars, outcome, err, planVars,
                                sourceVars, iteration, gaps, gapIdx, qIdx,
                                reportVars, gapCalls, anySearchOk, gapSearched,
                                gapDup>>
       ELSE /\ pc' = "postLoop"
            /\ UNCHANGED <<cfg, sideVars, calls, synthSources, abortVars, outcome, err, planVars, sourceVars,
                           synthVars, gapVars, reportVars, countVars>>

\* summarizeSources: one completion call per batch of MAX_SYNTHESIS_BATCH
SummarizeBatch ==
    /\ pc = "summarize"
    /\ sumI < Len(allSources)
    /\ \/ Throw("completion")
       \/ /\ sumI' = NextOffset(sumI, MAX_SYNTHESIS_BATCH)
          /\ UNCHANGED <<cfg, sideVars, calls, synthSources, abortVars, pc, outcome, err, planVars, sourceVars,
                         iteration, level, gapVars, reportVars, countVars>>

\* hierarchicalSynthesis after level `done`: the checkpoint, the return when
\* the profile asks for no further level, else the next level's completion
\* call (synthesizeByTheme, crossThemeAnalysis, finalSynthesis).  The value
\* of finalSynthesis is returned with no checkpoint after it.
LevelsNeverEnd(done) == FALSE

\* if (levels < done + 1) return
LevelsEnd(done) == intensityConfig.synthesisLevels < done + 1

SynthLevel ==
    /\ \/ pc = "summarize" /\ sumI >= Len(allSources)
       \/ pc = "synth"
    /\ LET done == IF pc = "summarize" THEN 1 ELSE level
       IN IF done >= 4 \/ (~CheckSynthLevel /\ LevelsEnd(done))
          THEN /\ pc' = "afterSynth"
               /\ level' = 0
               /\ sumI' = 0
               /\ UNCHANGED <<cfg, sideVars, calls, synthSources, abortVars, outcome, err, planVars,
                              sourceVars, iteration, gapVars, reportVars,
                              countVars>>
          ELSE IF CheckSynthLevel THEN Throw("cancelled")
          ELSE \/ Throw("completion")
               \/ /\ level' = done + 1
                  /\ sumI' = 0
                  /\ pc' = "synth"
                  /\ UNCHANGED <<cfg, sideVars, calls, synthSources, abortVars, outcome, err, planVars,
                                 sourceVars, iteration, gapVars, reportVars,
                                 countVars>>

\* Faulty variant: the break after a synthesis pass is missing
NeverEnds == FALSE

\* if (!enableAdaptiveResearch || iteration >= maxIterations) break
LoopEnds == ~cfg.enableAdaptiveResearch \/ iteration >= maxIterations

\* After a synthesis pass: leave the loop, or await identifyKnowledgeGaps.
AfterSynth(responses) ==
    /\ pc = "afterSynth"
    /\ IF LoopEnds
       THEN /\ pc' = "postLoop"
            /\ UNCHANGED <<gaps, gapCalls>>
       ELSE /\ \E resp \in responses : gaps' = IdentifyGaps(resp)
            /\ gapCalls' = gapCalls + 1
            /\ pc' = "gapsReturned"
    /\ UNCHANGED <<cfg, sideVars, calls, synthSources, abortVars, outcome, err, planVars, sourceVars,
                   synthVars, gapIdx, qIdx, newSources, reportVars, synthPasses,
                   anySearchOk, gapSearched, gapDup>>

\* if (gaps.length === 0) break; else searchForGaps is entered
GapsReturned ==
    /\ pc = "gapsReturned"
    /\ IF Len(gaps) = 0
       THEN /\ pc' = "postLoop"
            /\ UNCHANGED <<gapIdx, qIdx, newSources>>
       ELSE /\ newSources' = <<>>
            /\ gapIdx' = 1
            /\ qIdx' = 1
            /\ pc' = "gapSearch"
    /\ UNCHANGED <<cfg, sideVars, calls, synthSources, abortVars, outcome, err, planVars, sourceVars,
                   synthVars, gaps, reportVars, countVars>>

\* searchForGaps, inner loop over one result list: the URLs not seen so far,
\* first occurrence only, in result order.
RECURSIVE FreshUrls(_, _)
FreshUrls(urls, seen) ==
    IF urls = <<>> THEN <<>>
    ELSE IF Seen(Head(urls), seen) THEN FreshUrls(Tail(urls), seen)
    ELSE <<Head(urls)>> \o FreshUrls(Tail(urls), seen \cup {Head(urls)})

\* gap.suggestedQueries.slice(0, queriesPerGap).length
QueriesOf(g) == Min(g.nq, intensityConfig.gapQueriesPerIteration)

\* Faulty variant: the break on an empty gap-filling round is missing
AlwaysNew(found) == FALSE

\* if (newSources.length === 0) break
NoNewSources(found) == Len(found) = 0

\* searchForGaps: one query of one gap (checkpoint, search inside try/catch,
\* fetch of every unseen result), or the move to the next gap, or the return.
\* At the head of a gap, gap.suggestedQueries.slice and gap.description.slice
\* throw a TypeError when the field is missing.
GapQuery(outcomes) ==
    /\ pc = "gapSearch"
    /\ IF gapIdx > Len(gaps)
       THEN /\ IF NoNewSources(newSources)
               THEN pc' = "postLoop" /\ gaps' = <<>>
               ELSE pc' = "scoreNew" /\ gaps' = gaps
            /\ gapIdx' = 1
            /\ qIdx' = 1
            /\ calls' = [calls EXCEPT !.gapIssued = <<>>]
            /\ UNCHANGED <<cfg, sideVars, synthSources, abortVars, outcome, err, planVars, sourceVars,
                           synthVars, newSources, reportVars, countVars>>
       ELSE IF ~gaps[gapIdx].wellFormed THEN Throw("gap")
       ELSE IF qIdx > QueriesOf(gaps[gapIdx])
       THEN /\ gapIdx' = gapIdx + 1
            /\ qIdx' = 1
            /\ UNCHANGED <<cfg, sideVars, calls, synthSources, abortVars, pc, outcome, err, planVars,
                           sourceVars, synthVars, gaps, newSources, reportVars,
                           countVars>>
       ELSE IF CheckGapQuery THEN Throw("cancelled")
       ELSE \E o \in outcomes :
               LET read == Take(o.urls, GapResultsPerQuery)
                   fresh == FreshUrls(read, seenUrls)
               IN /\ seenUrls' = seenUrls \cup Range(fresh)
                  /\ calls' = [calls EXCEPT
                                  !.fetches = BumpEach(@, fresh),
                                  !.gapIssued = Bump(@, <<gapIdx, qIdx>>),
                                  !.searches = @ + 1]
                  /\ gapSearched' = TRUE
                  /\ gapDup' = (gapDup \/ Range(read) \cap seenUrls # {})
                  /\ newSources' = newSources \o
                                   [i \in 1..Len(fresh) |-> Source(fresh[i])]
                  /\ qIdx' = qIdx + 1
                  /\ anySearchOk' = (anySearchOk \/ o.st = "ok")
                  /\ UNCHANGED <<cfg, sideVars, synthSources, abortVars, pc, outcome, err, planVars,
                                 allSources, totalSearches, synthVars, gaps,
                                 gapIdx, reportVars, synthPasses, gapCalls>>

\* await this.scoreSourceRelevance(refinedQuery, newSources)
ScoreNewStep ==
    /\ pc = "scoreNew"
    /\ sumI < Len(newSources)
    /\ \E resp \in ScoreResponses(ScoreItemsRun, MaxScoreList,
                                   Len(Slice(newSources, sumI, ScoreBatchSize))) :
          newSources' = WithScoredBatch(newSources, sumI, resp)
    /\ sumI' = NextOffset(sumI, ScoreBatchSize)
    /\ UNCHANGED <<cfg, sideVars, calls, synthSources, abortVars, pc, outcome, err, planVars, sourceVars,
                   iteration, level, gaps, gapIdx, qIdx, reportVars, countVars>>

RECURSIVE SuggestedQueries(_)
SuggestedQueries(gs) ==
    IF gs = <<>> THEN 0 ELSE Head(gs).nq + SuggestedQueries(Tail(gs))

\* allSources.push(...newSources); sort; totalSearches += ...; iteration++
ScoreNewDone ==
    /\ pc = "scoreNew"
    /\ sumI >= Len(newSources)
    /\ allSources' = SortByScore(allSources \o newSources)
    /\ totalSearches' = totalSearches + SuggestedQueries(gaps)
    /\ iteration' = iteration + 1
    /\ sumI' = 0
    /\ gaps' = <<>>
    /\ pc' = "loop"
    /\ UNCHANGED <<cfg, sideVars, calls, synthSources, abortVars, outcome, err, planVars, seenUrls, level,
                   gapIdx, qIdx, newSources, reportVars, countVars>>

\* After the loop: the checkpoint, then await deduplicateSynthesis.
PostLoop ==
    /\ pc = "postLoop"
    /\ IF CheckAfterLoop THEN Throw("cancelled")
       ELSE \/ Throw("completion")
            \/ /\ pc' = "report"
               /\ UNCHANGED <<cfg, sideVars, calls, synthSources, abortVars, outcome, err, planVars,
                              sourceVars, synthVars, gapVars, reportVars,
                              countVars>>


\* ------------------------------------------------------------------------
\* Report generation
\* ------------------------------------------------------------------------
\* A text returned by the completion client for a report section, as the
\* engine reads it: the numbers N of its citation markers [N], and whether
\* the text, once trimmed and stripped of a leading title header, is the
\* sentinel string '__EXEC_SUMMARY_PLACEHOLDER__'.
Text(isSentinel, cites) == [sentinel |-> isSentinel, cites |-> cites]

EXEC_SUMMARY_PLACEHOLDER == Text(TRUE, {})

Section(title, content) == [title |-> title, content |-> content]

\* generateComprehensiveReport: sources of relevance >= 2 when at least 10
\* of them remain, else all sources
ReportSources(srcs) ==
    LET filtered == SelectSeq(srcs, LAMBDA x : x.relevanceScore >= MinReportRelevance)
    IN IF Len(filtered) >= MinFilteredSources THEN filtered ELSE srcs

\* title.toLowerCase().includes(...)
IsExecSummary(t) == t \in {"Executive Summary"}
IsMethodology(t) == t \in {"Methodology Note"}
IsCrossCutting(t) == t \in {"Cross-Cutting Analysis"}
IsRecommendations(t) ==
    t \in {"Recommendations & Future Outlook", "Conclusions & Recommendations"}

BannedTitles == {"Introduction", "Limitations"}

FallbackOutline ==
    <<"Executive Summary", "Methodology Note", "Main Findings",
      "Key Trends & Developments", "Stakeholder Perspectives",
      "Cross-Cutting Analysis", "Recommendations & Future Outlook">>

\* The renaming of recap-style titles
RenameTitle(t) ==
    IF t = "Conclusions & Recommendations" THEN "Recommendations & Future Outlook"
    ELSE IF t = "Analysis & Discussion" THEN "Cross-Cutting Analysis"
    ELSE t

\* Keep the first occurrence of every title
RECURSIVE DedupTitles(_, _)
DedupTitles(ts, seen) ==
    IF ts = <<>> THEN <<>>
    ELSE IF Head(ts) \in seen THEN DedupTitles(Tail(ts), seen)
    ELSE <<Head(ts)>> \o DedupTitles(Tail(ts), seen \cup {Head(ts)})

SanitizeOutline(ts) ==
    LET kept == SelectSeq(ts, LAMBDA t : t \notin BannedTitles)
        renamed == [i \in 1..Len(kept) |-> RenameTitle(kept[i])]
    IN DedupTitles(renamed, {})

\* An outline element whose title is not a string (a missing title, a
\* number, a null element): reading title.toLowerCase() of it throws.
NoTitle == "(no string title)"

\* The outline after parsing, sanitizing and the fallback.  The parsed array
\* is assigned to outline before it is sanitized; when a sanitizing step
\* throws on an element, the catch block leaves outline as parsed.
OutlineOf(resp) ==
    LET parsed == IF resp.kind # "list" THEN <<>>
                  ELSE IF \E i \in 1..Len(resp.items) : resp.items[i] = NoTitle
                  THEN resp.items
                  ELSE SanitizeOutline(resp.items)
    IN IF Len(parsed) < MinOutline THEN FallbackOutline ELSE parsed

\* compressSectionsForAnalysis: the sections that are compressed
BodySections(secs) ==
    SelectSeq(secs, LAMBDA x :
        /\ x.content # EXEC_SUMMARY_PLACEHOLDER
        /\ ~IsMethodology(x.title)
        /\ ~IsExecSummary(x.title)
        /\ ~IsCrossCutting(x.title)
        /\ ~IsRecommendations(x.title))

\* allSections.findIndex(s => s.content === '__EXEC_SUMMARY_PLACEHOLDER__'),
\* 1-based, 0 when there is none
ExecSummaryIdx(secs) ==
    IF \E i \in 1..Len(secs) : secs[i].content = EXEC_SUMMARY_PLACEHOLDER
    THEN CHOOSE i \in 1..Len(secs) :
            /\ secs[i].content = EXEC_SUMMARY_PLACEHOLDER
            /\ \A j \in 1..(i - 1) : secs[j].content # EXEC_SUMMARY_PLACEHOLDER
    ELSE 0

\* deduplicateReportSections, seen through the citation markers: a section
\* the pass skips keeps its content; any other section keeps a subset of its
\* sentences, hence of its markers.
DedupSkipped(x) ==
    \/ x.content = EXEC_SUMMARY_PLACEHOLDER
    \/ IsMethodology(x.title)
    \/ x.title = "References"

RECURSIVE DedupOutcomes(_)
DedupOutcomes(secs) ==
    IF secs = <<>> THEN {<<>>}
    ELSE LET x == Head(secs)
             keeps == IF DedupSkipped(x) THEN {x.content.cites}
                      ELSE SUBSET x.content.cites
         IN {<<Section(x.title, Text(x.content.sentinel, k))>> \o rest :
               k \in keeps, rest \in DedupOutcomes(Tail(secs))}

\* sources.map((s, i) => `[${i + 1}] ${s.title} (relevance: ...): ${s.url}`),
\* the lines before .join('\n')
SourceList(srcs) ==
    [i \in 1..Len(srcs) |->
        [n |-> i, relevanceScore |-> srcs[i].relevanceScore, url |-> srcs[i].url]]

RECURSIVE Reverse(_)
Reverse(s) == IF s = <<>> THEN <<>> ELSE Append(Reverse(Tail(s)), Head(s))

ReferencesReversed(srcs) ==
    Section("References",
            [sentinel |-> FALSE, cites |-> 1..Len(srcs),
             lines |-> SourceList(Reverse(srcs))])

\* The References section: one line "[i] title ..." per report source
References(srcs) ==
    Section("References",
            [sentinel |-> FALSE, cites |-> 1..Len(srcs), lines |-> SourceList(srcs)])

CheckSingleShot == aborted
CheckOutline == aborted
CheckSection == aborted
CheckCompress == aborted
CheckExecSummary == aborted

reportSources == ReportSources(allSources)

\* generateReportSingleShot: checkpoint, one completion call, the text split
\* into sections at its headers.
SingleShot(texts) ==
    /\ pc = "report"
    /\ cfg.reportDetailLevel = "standard"
    /\ IF CheckSingleShot THEN Throw("cancelled")
       ELSE \/ Throw("completion")
            \/ /\ \E t \in texts : sections' = <<Section("Overview", t)>>
               /\ sourceList' = SourceList(reportSources)
               /\ pc' = "return"
               /\ UNCHANGED <<cfg, sideVars, calls, synthSources, abortVars, outcome, err, planVars,
                              sourceVars, synthVars, gapVars, outline, si, ci,
                              report, countVars>>

\* generateReportSectionBySection, step 1: checkpoint and outline call
\* (its failure and a parse failure are caught).
PlanOutline(outlines) ==
    /\ pc = "report"
    /\ cfg.reportDetailLevel # "standard"
    /\ IF CheckOutline THEN Throw("cancelled")
       ELSE /\ \E resp \in outlines : outline' = OutlineOf(resp)
            /\ sections' = <<>>
            /\ sourceList' = SourceList(reportSources)
            /\ si' = 1
            /\ pc' = "sections"
            /\ UNCHANGED <<cfg, sideVars, calls, synthSources, abortVars, outcome, err, planVars, sourceVars,
                           synthVars, gapVars, ci, report, countVars>>

\* Step 2, one pass of the section loop up to its next checkpoint: the
\* TypeError of section.title.toLowerCase() when the title is no string, the
\* placeholder of the executive summary, or the completion call(s) writing a
\* methodology or body section (the knowledge-registry call before a body
\* section is caught), or the entry into compressSectionsForAnalysis.
WriteSection(texts) ==
    /\ pc = "sections"
    /\ si <= Len(outline)
    /\ IF CheckSection THEN Throw("cancelled")
       ELSE IF outline[si] = NoTitle THEN Throw("outline")
       ELSE IF IsExecSummary(outline[si])
       THEN /\ sections' = Append(sections, Section(outline[si], EXEC_SUMMARY_PLACEHOLDER))
            /\ si' = si + 1
            /\ UNCHANGED <<cfg, sideVars, calls, synthSources, abortVars, pc, outcome, err, planVars,
                           sourceVars, synthVars, gapVars, outline, ci, report, sourceList,
                           countVars>>
       ELSE IF ~IsMethodology(outline[si]) /\
               (IsCrossCutting(outline[si]) \/ IsRecommendations(outline[si]))
       THEN /\ pc' = "compress"
            /\ ci' = 1
            /\ UNCHANGED <<cfg, sideVars, calls, synthSources, abortVars, outcome, err, planVars, sourceVars,
                           synthVars, gapVars, outline, si, sections, report, sourceList,
                           countVars>>
       ELSE \/ Throw("completion")
            \/ /\ \E t \in texts : sections' = Append(sections, Section(outline[si], t))
               /\ si' = si + 1
               /\ UNCHANGED <<cfg, sideVars, calls, synthSources, abortVars, pc, outcome, err, planVars,
                              sourceVars, synthVars, gapVars, outline, ci,
                              report, sourceList, countVars>>

\* compressSectionsForAnalysis: per body section a checkpoint and a caught
\* completion call; after the last one, the completion call writing the
\* Cross-Cutting Analysis or Recommendations section.
CompressSection(texts) ==
    /\ pc = "compress"
    /\ IF ci <= Len(BodySections(sections))
       THEN IF CheckCompress THEN Throw("cancelled")
            ELSE /\ ci' = ci + 1
                 /\ UNCHANGED <<cfg, sideVars, calls, synthSources, abortVars, pc, outcome, err, planVars,
                                sourceVars, synthVars, gapVars, outline, si,
                                sections, report, sourceList, countVars>>
       ELSE \/ Throw("completion")
            \/ /\ \E t \in texts : sections' = Append(sections, Section(outline[si], t))
               /\ si' = si + 1
               /\ pc' = "sections"
               /\ UNCHANGED <<cfg, sideVars, calls, synthSources, abortVars, outcome, err, planVars,
                              sourceVars, synthVars, gapVars, outline, ci,
                              report, sourceList, countVars>>

\* Faulty variant: the summary section moved behind the other sections
SpliceAtEnd(secs, idx, t) ==
    SubSeq(secs, 1, idx - 1) \o SubSeq(secs, idx + 1, Len(secs))
    \o <<Section(secs[idx].title, t)>>

\* allSections[execSummaryIdx] = { title: ..., content: execContent.trim() }
Splice(secs, idx, t) == [secs EXCEPT ![idx].content = t]

\* Steps 3 to 5: the executive summary written into the first section that
\* holds the sentinel (checkpoint, completion call), the deduplication pass,
\* the appended References section.
FinishSections(texts) ==
    /\ pc = "sections"
    /\ si > Len(outline)
    /\ LET idx == ExecSummaryIdx(sections)
       IN IF idx # 0 /\ CheckExecSummary THEN Throw("cancelled")
          ELSE \/ idx # 0 /\ Throw("completion")
               \/ /\ \E t \in texts :
                        LET written == IF idx = 0 THEN sections
                                       ELSE Splice(sections, idx, t)
                        IN \E d \in DedupOutcomes(written) :
                              sections' = Append(d, References(reportSources))
                  /\ pc' = "return"
                  /\ UNCHANGED <<cfg, sideVars, calls, synthSources, abortVars, outcome, err, planVars,
                                 sourceVars, synthVars, gapVars, outline, si,
                                 ci, report, sourceList, countVars>>

\* research() resolves with the report and its metadata.
Return ==
    /\ pc = "return"
    /\ report' = [sources |-> reportSources, sections |-> sections,
                  totalSources |-> Len(allSources),
                  totalSearches |-> totalSearches]
    /\ outcome' = "resolved"
    /\ pc' = "done"
    /\ LocalsCleared
    /\ UNCHANGED <<cfg, sideVars, synthSources, abortVars, err, countVars>>

\* The stage of research() a position belongs to
Stage ==
    CASE pc = "plan" -> "planning"
      [] pc \in {"batch", "searching"} -> "gathering"
      [] pc \in {"score"} -> "scoring"
      [] pc \in {"loop", "summarize", "synth", "afterSynth", "gapsReturned",
                 "gapSearch", "scoreNew", "postLoop"} -> "synthesis"
      [] OTHER -> "writing"

\* The caller's AbortController.abort(), at any moment of a pending run.
Abort ==
    /\ outcome = "pending"
    /\ ~aborted
    /\ aborted' = TRUE
    /\ abortStage' = Stage
    /\ UNCHANGED <<cfg, sideVars, calls, synthSources, pc, outcome, err, planVars, sourceVars, synthVars,
                   gapVars, reportVars, countVars>>

\* ------------------------------------------------------------------------
\* Spec: one run of research()
\* ------------------------------------------------------------------------
TextsRun == {Text(FALSE, {})}

OutlinesRun ==
    {ArrayResponse("reject", <<>>),
     ArrayResponse("list", <<"Executive Summary", "Main Findings", "Introduction",
                             "Conclusions & Recommendations">>)}

\* The state of the run, before research() has run, but for the
\* configuration, the position, the sources and the sections.
FreshRun ==
    /\ aborted = FALSE
    /\ outcome = "pending"
    /\ err = "none"
    /\ planResponse = <<>>
    /\ searchPlan = <<>>
    /\ batchStart = 0
    /\ batchResults = <<>>
    /\ totalSearches = 0
    /\ iteration = 1
    /\ level = 0
    /\ sumI = 0
    /\ gaps = <<>>
    /\ gapIdx = 1
    /\ qIdx = 1
    /\ newSources = <<>>
    /\ outline = <<>>
    /\ si = 1
    /\ ci = 1
    /\ report = NoReport
    /\ sourceList = <<>>
    /\ calls = NoCalls
    /\ app = NoApp
    /\ synthSources = (IF synthPasses = 0 THEN <<>> ELSE allSources)
    /\ gapCalls = 0
    /\ anySearchOk = FALSE
    /\ gapSearched = FALSE
    /\ gapDup = FALSE
    /\ abortStage = "none"

\* no completion call observed
NoPrompt == [site |-> "none", texts |-> <<>>, parts |-> <<>>, chars |-> 0]

Fresh ==
    /\ FreshRun
    /\ sections = <<>>
    /\ dedupInput = <<>>
    /\ prompt = NoPrompt

Init ==
    /\ cfg \in ResearchConfigs
    /\ pc = "plan"
    /\ allSources = <<>>
    /\ seenUrls = {}
    /\ synthPasses = 0
    /\ Fresh

\* The resumptions of research(): every step but the caller's abort
Resume ==
    \/ Plan(PlanResponsesRun)
    \/ BatchStart
    \/ SearchSettle(SearchOutcomes)
    \/ BatchJoin
    \/ ScoreStep(ScoreItemsRun, MaxScoreList)
    \/ ScoreDone
    \/ LoopHead
    \/ SummarizeBatch
    \/ SynthLevel
    \/ AfterSynth(GapResponsesRun)
    \/ GapsReturned
    \/ GapQuery(SearchOutcomes)
    \/ ScoreNewStep
    \/ ScoreNewDone
    \/ PostLoop
    \/ SingleShot(TextsRun)
    \/ PlanOutline(OutlinesRun)
    \/ WriteSection(TextsRun)
    \/ CompressSection(TextsRun)
    \/ FinishSections(TextsRun)
    \/ Return

Next ==
    \/ Abort
    \/ Resume

Spec == Init /\ [][Next]_vars

\* SpecLive: one run with every awaited call settling.  A resumption is the
\* continuation of an await whose promise has settled, which the event loop
\* runs; the caller, in contrast, need never abort.  The user's iteration
\* setting is the largest one, so that maxIterations takes every value a
\* profile allows.
LiveConfigs == {c \in ResearchConfigs : c.maxResearchIterations = MaxUserIter}

InitLive ==
    /\ cfg \in LiveConfigs
    /\ pc = "plan"
    /\ allSources = <<>>
    /\ seenUrls = {}
    /\ synthPasses = 0
    /\ Fresh

SpecLive == InitLive /\ [][Next]_vars /\ WF_vars(Resume)

\* SpecIterations: one run, the iteration setting drawn from the integers
\* around zero as well.  ResearchConfig.maxResearchIterations is a number;
\* only the settings form keeps it at 1 or above.
IterationsDrawn == {-1, 0, MinUserIter, MinUserIter + 1}

IterationConfigs ==
    [intensity : Intensities,
     enableAdaptiveResearch : BOOLEAN,
     maxResearchIterations : IterationsDrawn,
     reportDetailLevel : DetailLevels]

InitIterations ==
    /\ cfg \in IterationConfigs
    /\ pc = "plan"
    /\ allSources = <<>>
    /\ seenUrls = {}
    /\ synthPasses = 0
    /\ Fresh

SpecIterations == InitIterations /\ [][Resume]_vars

\* ------------------------------------------------------------------------
\* SpecScore: scoreSourceRelevance over every class of completion response
\* ------------------------------------------------------------------------
MaxScored == 11         \* most sources scored: a full batch and one more
MaxScoreListAll == 2    \* longest score array of a scoring response

\* Array items drawn: a sign token (-1), zero, the ends of the documented
\* scale, and a number above it.
ScoreItemsAll == {-1, 0, 1, 10, 11}

\* The configuration plays no part in scoring and report writing.
PlainConfigs ==
    {c \in ResearchConfigs : /\ c.intensity = "quick"
                             /\ ~c.enableAdaptiveResearch
                             /\ c.maxResearchIterations = MinUserIter}

InitScore ==
    /\ cfg \in PlainConfigs
    /\ pc = "score"
    /\ \E n \in 0..MaxScored :
          /\ allSources = [i \in 1..n |-> Source(i)]
          /\ seenUrls = 1..n
    /\ synthPasses = 0
    /\ Fresh

NextScore ==
    \/ ScoreStep(ScoreItemsAll, MaxScoreListAll)
    \/ ScoreDone

SpecScore == InitScore /\ [][NextScore]_vars

\* ------------------------------------------------------------------------
\* SpecNumbers: from relevance scoring to the returned report, over source
\* lists long enough for the report writer's relevance filter to apply
\* ------------------------------------------------------------------------
NextNumbers ==
    \/ ScoreStep(ScoreItemsAll, MaxScoreListAll)
    \/ ScoreDone
    \/ LoopHead
    \/ SummarizeBatch
    \/ SynthLevel
    \/ AfterSynth(GapResponsesRun)
    \/ PostLoop
    \/ SingleShot(TextsRun)
    \/ PlanOutline(OutlinesRun)
    \/ WriteSection(TextsRun)
    \/ CompressSection(TextsRun)
    \/ FinishSections(TextsRun)
    \/ Return

SpecNumbers == InitScore /\ [][NextNumbers]_vars

\* ------------------------------------------------------------------------
\* SpecGaps: identifyKnowledgeGaps over gap lists of every length
\* ------------------------------------------------------------------------
MaxGapsAll == 6         \* longest gap list of a gap-analysis response

GapsAll ==
    {Gap(i, 1) : i \in {MinGapImportance - 1, MinGapImportance, 9}} \cup
    {BadGap(MinGapImportance)}

GapResponsesAll ==
    NoArrayResponses \cup
    {ArrayResponse("list", g) : g \in SeqsUpTo(GapsAll, MaxGapsAll)}

\* The first synthesis pass has just returned.
InitGaps ==
    /\ cfg \in ResearchConfigs
    /\ pc = "afterSynth"
    /\ allSources = <<>>
    /\ seenUrls = {}
    /\ synthPasses = 1
    /\ Fresh

NextGaps ==
    \/ AfterSynth(GapResponsesAll)
    \/ GapsReturned
    \/ GapQuery(SearchOutcomes)

SpecGaps == InitGaps /\ [][NextGaps]_vars

\* ------------------------------------------------------------------------
\* SpecReport: generateComprehensiveReport over texts that cite sources
\* ------------------------------------------------------------------------
MaxReportSources == 2   \* most sources handed to the report writer
MaxCite == 2            \* largest citation number a text holds

\* Section texts: without marker, citing source 1, citing source MaxCite,
\* and a text that is the sentinel string itself
TextsAll ==
    {Text(FALSE, {}), Text(FALSE, {1}), Text(FALSE, {MaxCite}),
     EXEC_SUMMARY_PLACEHOLDER}

\* Outline responses: the failure classes, an array that sanitizes to three
\* titles, one that sanitizes to two, and arrays with an element that has no
\* string title (three elements, and two).
OutlinesAll ==
    OutlinesRun \cup NoArrayResponses \cup
    {ArrayResponse("list", <<"Introduction", "Main Findings", "Limitations",
                             "Key Trends & Developments">>),
     ArrayResponse("list", <<"Main Findings", NoTitle, "Key Trends & Developments">>),
     ArrayResponse("list", <<"Main Findings", NoTitle>>)}

\* The synthesis has been deduplicated; the sources are scored and sorted.
InitReport ==
    /\ cfg \in PlainConfigs
    /\ pc = "report"
    /\ \E n \in 0..MaxReportSources :
          /\ allSources = [i \in 1..n |-> [Source(i) EXCEPT !.relevanceScore = DefaultScore]]
          /\ seenUrls = 1..n
    /\ synthPasses = 1
    /\ Fresh

NextReport ==
    \/ SingleShot(TextsAll)
    \/ PlanOutline(OutlinesAll)
    \/ WriteSection(TextsAll)
    \/ CompressSection(TextsAll)
    \/ FinishSections(TextsAll)
    \/ Return

SpecReport == InitReport /\ [][NextReport]_vars

\* ------------------------------------------------------------------------
\* SpecDedup: deduplicateReportSections over section texts
\* ------------------------------------------------------------------------
\* A text is the sequence of its whitespace-separated words; a run of blank
\* lines (/\n\n+/) is the item ParBreak.  A word carries what the pass reads
\* of it: its characters, its lower-case form, its form after extractNgrams'
\* normalisation (lower case, characters outside [\w\s'-] removed), whether
\* its first character is in [A-Z\["] and whether its last is in [.!?].
\* Words are separated by one blank, so trim() changes nothing.
W(text, lower, norm, cap, end) ==
    [text |-> text, lower |-> lower, norm |-> norm, cap |-> cap, end |-> end]

ParBreak == W("\n\n", "\n\n", "", FALSE, FALSE)

NgramSize == 4
MinSentenceChars == 10
MinSectionChars == 100
MinNgramMatches == 3

STOP_WORDS ==
    {"the", "a", "an", "and", "or", "but", "in", "on", "at", "to", "for",
     "of", "with", "by", "from", "is", "are", "was", "were", "be", "been",
     "has", "have", "had", "this", "that", "these", "those", "it", "its",
     "as", "not", "no"}

RECURSIVE SumLen(_)
SumLen(ws) == IF ws = <<>> THEN 0 ELSE Len(Head(ws).text) + SumLen(Tail(ws))

\* string length of a paragraph-free text
TextChars(ws) == IF ws = <<>> THEN 0 ELSE SumLen(ws) + (Len(ws) - 1)

\* string length of paragraphs joined by '\n\n'
RECURSIVE ContentChars(_)
ContentChars(paras) ==
    IF paras = <<>> THEN 0
    ELSE IF Len(paras) = 1 THEN TextChars(paras[1])
    ELSE TextChars(Head(paras)) + 2 + ContentChars(Tail(paras))

\* content.split(/\n\n+/)
RECURSIVE SplitParagraphs(_)
SplitParagraphs(content) ==
    IF \A i \in 1..Len(content) : content[i] # ParBreak THEN <<content>>
    ELSE LET b == CHOOSE i \in 1..Len(content) :
                    /\ content[i] = ParBreak
                    /\ \A j \in 1..(i - 1) : content[j] # ParBreak
             after == {i \in (b + 1)..Len(content) : content[i] # ParBreak}
             next == IF after = {} THEN Len(content) + 1
                     ELSE CHOOSE i \in after : \A j \in after : i <= j
         IN <<SubSeq(content, 1, b - 1)>>
            \o SplitParagraphs(SubSeq(content, next, Len(content)))

\* newParagraphs.join('\n\n')
RECURSIVE JoinParagraphs(_)
JoinParagraphs(paras) ==
    IF paras = <<>> THEN <<>>
    ELSE IF Len(paras) = 1 THEN paras[1]
    ELSE Head(paras) \o <<ParBreak>> \o JoinParagraphs(Tail(paras))

\* keptSentences.join(' ')
RECURSIVE JoinSentences(_)
JoinSentences(ss) ==
    IF ss = <<>> THEN <<>> ELSE Head(ss) \o JoinSentences(Tail(ss))

\* text.split(/(?<=[.!?])\s+(?=[A-Z\["])/)
RECURSIVE SplitParts(_)
SplitParts(text) ==
    LET cuts == {i \in 1..(Len(text) - 1) : text[i].end /\ text[i + 1].cap}
    IN IF cuts = {} THEN <<text>>
       ELSE LET c == CHOOSE i \in cuts : \A j \in cuts : i <= j
            IN <<SubSeq(text, 1, c)>>
               \o SplitParts(SubSeq(text, c + 1, Len(text)))

splitIntoSentences(text) ==
    SelectSeq(SplitParts(text), LAMBDA p : TextChars(p) > MinSentenceChars)

\* extractNgrams: the n-grams of the normalised words that hold at least two
\* words outside the stop list, in order, repetitions included
extractNgrams(text, n) ==
    LET all == [i \in 1..Len(text) |-> text[i].norm]
        words == SelectSeq(all, LAMBDA w : w # "")
        grams == [i \in 1..(Len(words) - n + 1) |-> SubSeq(words, i, i + n - 1)]
    IN IF Len(words) < n THEN <<>>
       ELSE SelectSeq(grams, LAMBDA g :
                Cardinality({k \in 1..n : g[k] \notin STOP_WORDS}) >= 2)

\* matchCount, the number of the sentence's n-grams already seen
MatchCount(ngrams, seen) ==
    Cardinality({i \in 1..Len(ngrams) : ngrams[i] \in seen})

NeverDuplicate(ngrams, seen) == FALSE

\* Faulty variant: two matching n-grams suffice
DuplicateAtTwo(ngrams, seen) ==
    /\ Cardinality({i \in 1..Len(ngrams) : ngrams[i] \in seen}) >= 2
    /\ 10 * Cardinality({i \in 1..Len(ngrams) : ngrams[i] \in seen})
          >= 3 * Len(ngrams)

\* matchCount >= 3 && matchRatio >= 0.3
IsDuplicate(ngrams, seen) ==
    /\ MatchCount(ngrams, seen) >= MinNgramMatches
    /\ Len(ngrams) > 0
    /\ 10 * MatchCount(ngrams, seen) >= 3 * Len(ngrams)

\* the sentence loop (1551-1576)
RECURSIVE DedupSentences(_, _, _)
DedupSentences(sentences, seen, first) ==
    IF sentences = <<>> THEN [kept |-> <<>>, seen |-> seen]
    ELSE LET ngrams == extractNgrams(Head(sentences), NgramSize)
             drop == ~first /\ IsDuplicate(ngrams, seen)
             rest == DedupSentences(Tail(sentences),
                                    IF drop THEN seen ELSE seen \cup Range(ngrams),
                                    first)
         IN [kept |-> (IF drop THEN <<>> ELSE <<Head(sentences)>>) \o rest.kept,
             seen |-> rest.seen]

\* para.trim().startsWith('#') || para.trim().startsWith('---')
IsHeaderParagraph(para) ==
    para # <<>> /\ para[1].text \in {"#", "##", "###", "---"}

\* para.trim().startsWith('Forward-Looking Statement') or its bold form
IsForwardLooking(para) ==
    /\ Len(para) >= 2
    /\ para[1].text \in {"Forward-Looking", "**Forward-Looking"}
    /\ para[2].text \in {"Statement", "Statement:", "Statement**"}

\* paraLower.includes(phrase), the phrase matched on whole words
Includes(text, phrase) ==
    \E i \in 0..(Len(text) - Len(phrase)) :
        \A k \in 1..Len(phrase) : text[i + k].lower = phrase[k]

IsClosingBoilerplate(para) ==
    \/ Includes(para, <<"transparent", "and", "ethical", "practices">>)
    \/ Includes(para, <<"ethical", "decision-making,", "content", "integrity">>)
    \/ /\ Includes(para, <<"broader", "concerns", "about">>)
       /\ Includes(para, <<"gaming", "industry">>)

\* the paragraph loop (1521-1581)
RECURSIVE DedupParagraphs(_, _, _, _)
DedupParagraphs(paras, seen, first, last) ==
    IF paras = <<>> THEN [kept |-> <<>>, seen |-> seen]
    ELSE LET para == Head(paras)
         IN IF IsHeaderParagraph(para)
            THEN LET rest == DedupParagraphs(Tail(paras), seen, first, last)
                 IN [kept |-> <<para>> \o rest.kept, seen |-> rest.seen]
            ELSE IF IsForwardLooking(para) \/ IsClosingBoilerplate(para)
            THEN LET rest == DedupParagraphs(Tail(paras), seen, first, last)
                 IN [kept |-> (IF last THEN <<para>> ELSE <<>>) \o rest.kept,
                     seen |-> rest.seen]
            ELSE LET r == DedupSentences(splitIntoSentences(para), seen, first)
                     rest == DedupParagraphs(Tail(paras), r.seen, first, last)
                 IN [kept |-> (IF r.kept = <<>> THEN <<>>
                               ELSE <<JoinSentences(r.kept)>>) \o rest.kept,
                     seen |-> rest.seen]

PLACEHOLDER_TEXT ==
    <<W("__EXEC_SUMMARY_PLACEHOLDER__", "__exec_summary_placeholder__",
        "__exec_summary_placeholder__", FALSE, FALSE)>>

\* Faulty variant: only the deferred summary is skipped
SkipsPlaceholderOnly(x) == x.content = PLACEHOLDER_TEXT

\* the two continue statements of the section loop (1515-1516)
DedupSkipsText(x) ==
    \/ x.content = PLACEHOLDER_TEXT
    \/ IsMethodology(x.title)
    \/ x.title = "References"

\* newContent.length > 100
Rewrites(paras) == ContentChars(paras) > MinSectionChars

\* One pass of the section loop body: the new content of the section, the
\* n-grams seen after it, and whether the section was replaced.
DedupSection(x, seen, first, last) ==
    LET r == DedupParagraphs(SplitParagraphs(x.content), seen, first, last)
    IN [content |-> IF Rewrites(r.kept) THEN JoinParagraphs(r.kept)
                    ELSE x.content,
        rewritten |-> Rewrites(r.kept),
        seenBefore |-> seen,
        first |-> first,
        seen |-> r.seen]

\* The section loop (1513-1591) from section i on: for every section that
\* is not skipped, the record DedupSection yields; for a skipped one, its
\* content unchanged.
RECURSIVE DedupTrace(_, _, _, _)
DedupTrace(secs, i, seen, first) ==
    IF i > Len(secs) THEN <<>>
    ELSE IF DedupSkipsText(secs[i])
    THEN <<[content |-> secs[i].content, rewritten |-> FALSE,
            seenBefore |-> seen, first |-> FALSE, seen |-> seen]>>
         \o DedupTrace(secs, i + 1, seen, first)
    ELSE LET r == DedupSection(secs[i], seen, first, i = Len(secs))
         IN <<r>> \o DedupTrace(secs, i + 1, r.seen, FALSE)

deduplicateReportSections(secs) ==
    LET t == DedupTrace(secs, 1, {}, TRUE)
    IN [i \in 1..Len(secs) |-> Section(secs[i].title, t[i].content)]

\* Words of the texts drawn
LowerWord(w) == W(w, w, w, FALSE, FALSE)
CapitalWord(text, lower) == W(text, lower, lower, TRUE, FALSE)
LastWord(text, norm) == W(text, text, norm, FALSE, TRUE)

Sentence119 ==
    <<CapitalWord("The", "the"), LowerWord("committee"), LowerWord("reviewed"),
      LowerWord("119"), LowerWord("submissions"), LowerWord("in"),
      LastWord("total.", "total")>>

Restated119 ==
    <<CapitalWord("As", "as"), W("noted,", "noted,", "noted", FALSE, FALSE),
      LowerWord("the"), LowerWord("committee"), LowerWord("reviewed"),
      LowerWord("119"), LastWord("submissions.", "submissions")>>

\* a sentence of more than 100 characters
LongSentence ==
    <<CapitalWord("Independent", "independent"), LowerWord("auditors"),
      LowerWord("later"), LowerWord("examined"), LowerWord("every"),
      LowerWord("remaining"), LowerWord("application"), LowerWord("against"),
      LowerWord("published"), LowerWord("eligibility"), LowerWord("criteria"),
      LowerWord("before"), LowerWord("announcing"), LowerWord("final"),
      LastWord("outcomes.", "outcomes")>>

ShortSentence == <<W("Summary.", "summary.", "summary", TRUE, TRUE)>>

ForwardSentence ==
    <<CapitalWord("Forward-Looking", "forward-looking"),
      W("Statement:", "statement:", "statement", TRUE, FALSE),
      LowerWord("funding"), LowerWord("will"), LastWord("grow.", "grow")>>

MaxFragments == 3       \* most fragments of the first section's content
MaxFragmentsRest == 2   \* most fragments of a later section's content

\* The fragments the content of the first section and of a later section
\* are put together from
FirstFragments ==
    {Sentence119, LongSentence, ShortSentence \o ForwardSentence, <<ParBreak>>}
RestFragments ==
    {Sentence119, Restated119, LongSentence, <<ParBreak>>}

RECURSIVE Concat(_)
Concat(ss) == IF ss = <<>> THEN <<>> ELSE Head(ss) \o Concat(Tail(ss))

ContentsUpTo(fragments, n) == {Concat(fs) : fs \in SeqsUpTo(fragments, n)}

DedupInputs ==
    {<<Section(t, c1), Section("Key Trends & Developments", c2)>> :
        t \in {"Main Findings", "Methodology Note", "References"},
        c1 \in ContentsUpTo(FirstFragments, MaxFragments) \cup {PLACEHOLDER_TEXT},
        c2 \in ContentsUpTo(RestFragments, MaxFragmentsRest)}

\* All sections are written; the pass is about to run.
InitDedup ==
    /\ cfg \in {c \in PlainConfigs : c.reportDetailLevel = "detailed"}
    /\ pc = "dedup"
    /\ allSources = <<>>
    /\ seenUrls = {}
    /\ synthPasses = 1
    /\ FreshRun
    /\ sections \in DedupInputs
    /\ dedupInput = <<>>
    /\ prompt = NoPrompt

\* deduplicateReportSections(allSections, ...), run on the written sections
\* and once more on its own output.
Deduplicate ==
    /\ pc \in {"dedup", "deduped"}
    /\ dedupInput' = sections
    /\ prompt' = prompt
    /\ app' = app
    /\ sections' = deduplicateReportSections(sections)
    /\ pc' = IF pc = "dedup" THEN "deduped" ELSE "dedupedAgain"
    /\ UNCHANGED <<cfg, calls, synthSources, abortVars, outcome, err, planVars, sourceVars,
                   synthVars, gapVars, outline, si, ci, report, sourceList,
                   countVars>>

NextDedup == Deduplicate

SpecDedup == InitDedup /\ [][NextDedup]_vars

\* ------------------------------------------------------------------------
\* SpecGather: gathering and gap filling over more URLs than maxSources
\* ------------------------------------------------------------------------
NumUrlsAll == 3         \* URLs the search service knows
MaxResultsAll == 2      \* longest result list of a search

SearchOutcomesAll == SearchOutcomesOver(1..NumUrlsAll, MaxResultsAll)

\* The two smallest profiles, adaptive research enabled
GatherConfigs ==
    {c \in ResearchConfigs : /\ c.intensity \in {"quick", "standard"}
                             /\ c.enableAdaptiveResearch
                             /\ c.maxResearchIterations = MinUserIter + 1
                             /\ c.reportDetailLevel = "standard"}

InitGather ==
    /\ cfg \in GatherConfigs
    /\ pc = "plan"
    /\ allSources = <<>>
    /\ seenUrls = {}
    /\ synthPasses = 0
    /\ Fresh

\* research() up to the end of the adaptive loop
NextGather ==
    \/ Plan(PlanResponsesRun)
    \/ BatchStart
    \/ SearchSettle(SearchOutcomesAll)
    \/ BatchJoin
    \/ ScoreStep(ScoreItemsRun, MaxScoreList)
    \/ ScoreDone
    \/ LoopHead
    \/ SummarizeBatch
    \/ SynthLevel
    \/ AfterSynth(GapResponsesRun)
    \/ GapsReturned
    \/ GapQuery(SearchOutcomesAll)
    \/ ScoreNewStep
    \/ ScoreNewDone

SpecGather == InitGather /\ [][NextGather]_vars

\* SpecTotals: the runs of SpecGather continued to the returned report
NextTotals ==
    \/ NextGather
    \/ PostLoop
    \/ SingleShot(TextsRun)
    \/ Return

SpecTotals == InitGather /\ [][NextTotals]_vars

\* ------------------------------------------------------------------------
\* SpecPlan: createSearchPlan over planning responses of every shape
\* ------------------------------------------------------------------------
MaxPlanLines == 4       \* most lines of a planning response

PlanLinesAll ==
    {PlainLine,
     Line("AI safety", "AI safety", "ai safety", FALSE),
     Line("ai SAFETY", "ai SAFETY", "ai safety", FALSE),
     Line("  AI safety risks ", "AI safety risks", "ai safety risks", FALSE),
     Line("1. AI safety history", "1. AI safety history",
          "1. ai safety history", TRUE),
     Line("  ", "", "", FALSE)}

PlanResponsesAll == SeqsUpTo(PlanLinesAll, MaxPlanLines)

InitPlan ==
    /\ cfg \in {c \in PlainConfigs : c.reportDetailLevel = "standard"}
    /\ pc = "plan"
    /\ allSources = <<>>
    /\ seenUrls = {}
    /\ synthPasses = 0
    /\ Fresh

NextPlan == Plan(PlanResponsesAll)

SpecPlan == InitPlan /\ [][NextPlan]_vars

\* ------------------------------------------------------------------------
\* SpecApp: the App component starting, cancelling and restarting research
\* ------------------------------------------------------------------------
\* A run of research() is seen from its caller: while its promise is pending
\* it may call onProgress; it resolves with a report, rejects with an error,
\* or, its abort signal set, rejects with 'Research cancelled' at its next
\* checkpoint.  A run whose signal was set after its last checkpoint still
\* resolves, and one between two checkpoints still reports progress.
MaxRuns == 3            \* most runs started
MaxSteps == 3           \* most steps in the step log

engineVars == <<cfg, pc, outcome, err, calls, synthSources, dedupInput, prompt,
                abortVars, planVars, sourceVars, synthVars, gapVars,
                reportVars, countVars>>

Pending(r) == r \in 1..Len(app.runs) /\ app.runs[r].st = "pending"

\* startResearchExecution up to its await, entered from ResearchInput
\* (rendered when state === 'idle') through handleStartResearch
startResearchExecution ==
    /\ app.state = "idle"
    /\ Len(app.runs) < MaxRuns
    /\ app' = [app EXCEPT !.state = "researching",
                          !.steps = <<>>,
                          !.currentStep = 0,
                          !.report = 0,
                          !.error = FALSE,
                          !.controller = Len(app.runs) + 1,
                          !.runs = Append(@, [signal |-> FALSE, st |-> "pending"])]
    /\ UNCHANGED engineVars

\* handleProgress of run r: setCurrentStep(step); setSteps(prev => [...prev, step])
handleProgress(r) ==
    /\ Pending(r)
    /\ Len(app.steps) < MaxSteps
    /\ app' = [app EXCEPT !.currentStep = r, !.steps = Append(@, r)]
    /\ UNCHANGED engineVars

\* the await of run r resumes with a report: setReport(result); setState('complete')
ResearchResolved(r) ==
    /\ Pending(r)
    /\ app' = [app EXCEPT !.report = r,
                          !.state = "complete",
                          !.runs[r].st = "resolved"]
    /\ UNCHANGED engineVars

\* the catch block of run r: setState('idle'), and setError(...) unless the
\* error is 'Research cancelled', which only a run with its signal set
\* throws
ResearchRejected(r) ==
    /\ Pending(r)
    /\ \E cancelled \in {c \in BOOLEAN : c => app.runs[r].signal} :
          app' = [app EXCEPT !.state = "idle",
                             !.error = IF cancelled THEN @ ELSE TRUE,
                             !.runs[r].st = "rejected"]
    /\ UNCHANGED engineVars

\* handleCancel, from ResearchProgress (rendered when state === 'researching')
handleCancel ==
    /\ app.state = "researching"
    /\ app' = [app EXCEPT !.state = "idle",
                          !.runs = IF app.controller = 0 THEN @
                                   ELSE [@ EXCEPT ![app.controller].signal = TRUE]]
    /\ UNCHANGED engineVars

\* handleNewResearch, from ResearchReportView (state === 'complete' && report)
handleNewResearch ==
    /\ app.state = "complete"
    /\ app.report # 0
    /\ app' = [app EXCEPT !.state = "idle", !.steps = <<>>, !.currentStep = 0,
                          !.report = 0, !.error = FALSE]
    /\ UNCHANGED engineVars

NextApp ==
    \/ startResearchExecution
    \/ \E r \in 1..MaxRuns : handleProgress(r)
    \/ \E r \in 1..MaxRuns : ResearchResolved(r)
    \/ \E r \in 1..MaxRuns : ResearchRejected(r)
    \/ handleCancel
    \/ handleNewResearch

SpecApp == InitPlan /\ [][NextApp]_vars

\* ------------------------------------------------------------------------
\* SpecBudget: the synthesis text a completion call's prompt carries
\* ------------------------------------------------------------------------
\* Texts are seen through their lengths.
MaxSummaries == 2       \* most batch summaries handed to synthesizeByTheme

\* text.slice(0, n).length
SliceChars(chars, n) == Min(chars, n)

\* synthesizeByTheme: the lengths of truncatedSummaries (578-594)
RECURSIVE TruncatedSummaries(_, _)
TruncatedSummaries(summaries, totalChars) ==
    IF summaries = <<>> THEN <<>>
    ELSE IF totalChars + Head(summaries) > MAX_CONTEXT_CHARS
    THEN IF MAX_CONTEXT_CHARS - totalChars > MinRemainingChars
         THEN <<MAX_CONTEXT_CHARS - totalChars + Len("...")>>
         ELSE <<>>
    ELSE <<Head(summaries)>>
         \o TruncatedSummaries(Tail(summaries), totalChars + Head(summaries))

\* texts.join('\n\n').length
RECURSIVE JoinedChars(_)
JoinedChars(texts) ==
    IF texts = <<>> THEN 0
    ELSE IF Len(texts) = 1 THEN texts[1]
    ELSE Head(texts) + Len("\n\n") + JoinedChars(Tail(texts))

\* The call sites that put synthesis text into a prompt
SliceSites == {"crossThemeAnalysis", "finalSynthesis", "deduplicateSynthesis",
               "identifyKnowledgeGaps", "section"}
PromptSites == SliceSites \cup {"synthesizeByTheme", "outline", "singleShot"}

\* The pieces of synthesis text a site puts into its prompt, by length
SynthesisParts(site, texts) ==
    CASE site = "synthesizeByTheme" -> TruncatedSummaries(texts, 0)
      [] site \in SliceSites -> <<SliceChars(texts[1], MAX_CONTEXT_CHARS)>>
      [] site = "outline" -> <<SliceChars(texts[1], OutlineSynthesisChars)>>
      [] site = "singleShot" -> <<texts[1]>>

\* The number of characters of synthesis text in the prompt of a site
SynthesisChars(site, texts) == JoinedChars(SynthesisParts(site, texts))

\* Text lengths drawn
TextLengths ==
    {0, MinRemainingChars, OutlineSynthesisChars + 1,
     MAX_CONTEXT_CHARS - MinRemainingChars, MAX_CONTEXT_CHARS,
     MAX_CONTEXT_CHARS + 1}

PromptInputs ==
    {[site |-> "synthesizeByTheme", texts |-> t, parts |-> <<>>, chars |-> 0] :
        t \in SeqsUpTo(TextLengths, MaxSummaries)} \cup
    {[site |-> x, texts |-> <<n>>, parts |-> <<>>, chars |-> 0] :
        x \in PromptSites \ {"synthesizeByTheme"}, n \in TextLengths}

InitBudget ==
    /\ cfg \in {c \in PlainConfigs : c.reportDetailLevel = "standard"}
    /\ pc = "prompt"
    /\ allSources = <<>>
    /\ seenUrls = {}
    /\ synthPasses = 1
    /\ FreshRun
    /\ sections = <<>>
    /\ dedupInput = <<>>
    /\ prompt \in PromptInputs

\* The call site builds its prompt.
BuildPrompt ==
    /\ pc = "prompt"
    /\ prompt' = [prompt EXCEPT
                     !.parts = SynthesisParts(prompt.site, prompt.texts),
                     !.chars = SynthesisChars(prompt.site, prompt.texts)]
    /\ pc' = "prompted"
    /\ UNCHANGED <<cfg, calls, synthSources, app, dedupInput, abortVars, outcome, err, planVars,
                   sourceVars, synthVars, gapVars, reportVars, countVars>>

NextBudget == BuildPrompt

SpecBudget == InitBudget /\ [][NextBudget]_vars

\* ------------------------------------------------------------------------
\* Properties
\* ------------------------------------------------------------------------
DistinctUrls(srcs) ==
    \A i, j \in 1..Len(srcs) : i # j => srcs[i].url # srcs[j].url

\* C1: in every run that returns a report, no two entries of report.sources
\* have the same url, whatever the search client returns.  The sources
\* collected so far are free of duplicates at every moment as well.
C1_UniqueSourceUrls ==
    /\ DistinctUrls(allSources)
    /\ outcome = "resolved" => DistinctUrls(report.sources)

\* A report with every URL of the model as a source, returned by a run whose
\* gap-filling searches returned a URL that had been seen before.
C1_Witness ==
    /\ outcome = "resolved"
    /\ Len(report.sources) = NumUrls
    /\ report.totalSearches > 1
    /\ gapDup

\* C2: once the abort flag is set while research() is in progress, research()
\* never resolves with a report.
C2_AbortNeverResolves == aborted => outcome # "resolved"

GatherPcs == {"batch", "searching"}

\* C3: when the abort flag is set during the initial search/read stage, the
\* run never leaves that stage except by rejecting with the cancellation
\* error (so no scoring or synthesis call follows and no report is returned),
\* and the step it takes at the head of the batch loop is that rejection.
C3_AbortWhileGathering ==
    /\ [](abortStage = "gathering" =>
            /\ pc \in GatherPcs \cup {"done"}
            /\ outcome # "resolved"
            /\ outcome = "rejected" => err = "cancelled")
    /\ [][abortStage = "gathering" /\ pc = "batch" =>
            outcome' = "rejected" /\ err' = "cancelled"]_vars

\* A run aborted while gathering, after a search of it had fulfilled, that
\* has rejected with the cancellation error.
C3_Witness ==
    /\ abortStage = "gathering"
    /\ anySearchOk
    /\ outcome = "rejected"
    /\ err = "cancelled"

\* C4: a rejected search call never makes research() reject (a run rejects on
\* cancellation or on a failed completion call only), and a run whose every
\* search call rejected resolves with a report of zero sources.
C4_SearchFailuresTolerated ==
    /\ outcome = "rejected" => err \in {"cancelled", "completion"}
    /\ outcome = "resolved" /\ ~anySearchOk =>
          /\ report.sources = <<>>
          /\ report.totalSources = 0

\* A returned report of a run in which initial and gap-filling searches were
\* issued and every one of them rejected.
C4_Witness ==
    /\ outcome = "resolved"
    /\ ~aborted
    /\ ~anySearchOk
    /\ gapSearched
    /\ report.totalSearches >= QueryCap
    /\ report.sources = <<>>

\* C5: after scoreSourceRelevance every scored source has a relevanceScore
\* between 1 and 10 inclusive, for every completion response.
C5_ScoresInRange ==
    pc = "loop" =>
        \A i \in 1..Len(allSources) :
            /\ allSources[i].relevanceScore >= 1
            /\ allSources[i].relevanceScore <= 10

\* C6: identifyKnowledgeGaps never returns more than 5 gaps and every gap it
\* returns has importance >= 5.
C6_AtMostFiveImportantGaps ==
    /\ Len(gaps) <= 5
    /\ \A i \in 1..Len(gaps) : gaps[i].importance >= 5

SynthesisReachedPcs ==
    {"summarize", "synth", "afterSynth", "gapsReturned", "gapSearch",
     "scoreNew", "postLoop", "report", "sections", "compress", "return"}

GapPcs == {"gapsReturned", "gapSearch", "scoreNew"}

\* C7: with enableAdaptiveResearch = false a run that reaches the synthesis
\* stage executes exactly one hierarchical synthesis pass, and it issues no
\* gap-analysis call and no gap-filling search, for every value of
\* maxResearchIterations and every profile.
C7_NonAdaptiveSinglePass ==
    ~cfg.enableAdaptiveResearch =>
        /\ synthPasses <= 1
        /\ pc \in SynthesisReachedPcs \/ outcome = "resolved" => synthPasses = 1
        /\ gapCalls = 0
        /\ ~gapSearched
        /\ pc \notin GapPcs

\* A returned report of a non-adaptive run whose iteration settings both
\* allow more than one pass.
C7_Witness ==
    /\ ~cfg.enableAdaptiveResearch
    /\ cfg.maxResearchIterations = MaxUserIter
    /\ intensityConfig.adaptiveIterations > 1
    /\ outcome = "resolved"
    /\ synthPasses = 1

\* C8: with adaptive research enabled the number of hierarchical synthesis
\* passes never exceeds min(maxResearchIterations, adaptiveIterations) and the
\* number of gap-analysis calls never exceeds that minimum minus one.
C8_IterationBudget ==
    cfg.enableAdaptiveResearch =>
        LET budget == Min(cfg.maxResearchIterations,
                          intensityConfig.adaptiveIterations)
        IN /\ synthPasses <= budget
           /\ gapCalls <= budget - 1

\* A returned report of an adaptive run that used its whole budget, the
\* budget being the user's setting and smaller than the profile's.
C8_Witness ==
    /\ cfg.enableAdaptiveResearch
    /\ cfg.maxResearchIterations < intensityConfig.adaptiveIterations
    /\ outcome = "resolved"
    /\ synthPasses = cfg.maxResearchIterations
    /\ synthPasses > 1
    /\ gapCalls = synthPasses - 1

AfterLoopPcs == {"postLoop", "report", "sections", "compress", "return", "done"}

\* C9: a synthesis pass after the first happens only directly after a
\* gap-filling round that found at least one new source; when gap analysis
\* returns no gap, or the gap-filling searches yield no new source, the run
\* leaves the loop with its next step, and after the loop there is no
\* further synthesis pass, gap analysis or gap search.
C9_ResynthesisNeedsNewSources ==
    [][/\ synthPasses' > synthPasses /\ synthPasses >= 1 =>
            pc = "loop" /\ Len(newSources) > 0
       /\ pc = "gapsReturned" /\ Len(gaps) = 0 /\ pc' # pc =>
            pc' = "postLoop"
       /\ pc = "gapSearch" /\ gapIdx > Len(gaps) /\ Len(newSources) = 0 /\ pc' # pc =>
            pc' = "postLoop"
       /\ pc \in AfterLoopPcs =>
            /\ pc' \in AfterLoopPcs
            /\ synthPasses' = synthPasses
            /\ gapCalls' = gapCalls
            /\ gapSearched' = gapSearched]_vars

\* The loop left after a second pass with iteration budget remaining: the
\* first gap-filling round found a new source, the second analysis or round
\* found nothing.
C9_Witness ==
    /\ pc = "postLoop"
    /\ cfg.enableAdaptiveResearch
    /\ iteration < maxIterations
    /\ synthPasses = 2
    /\ gapCalls = 2
    /\ gapSearched

\* C10: in every returned report every citation marker [N] in the content of
\* a section satisfies 1 <= N <= report.sources.length.
C10_CitationsInRange ==
    outcome = "resolved" =>
        \A i \in 1..Len(report.sections) :
            \A n \in report.sections[i].content.cites :
                n >= 1 /\ n <= Len(report.sources)

\* C11: running deduplicateReportSections on the output of a first run
\* changes no section's content.
C11_DedupIdempotent ==
    pc = "dedupedAgain" => sections = dedupInput

\* The sentences of a content, paragraph by paragraph
RECURSIVE SentencesOf(_)
SentencesOf(paras) ==
    IF paras = <<>> THEN <<>>
    ELSE splitIntoSentences(Head(paras)) \o SentencesOf(Tail(paras))

\* For every sentence, the n-grams of the sentences before it
NgramsBefore(sentences, k) ==
    UNION {Range(extractNgrams(sentences[j], NgramSize)) : j \in 1..(k - 1)}

\* at least 3 of the n-grams, making up at least 30% of them, are in prior
Overlaps(ngrams, prior) ==
    LET m == Cardinality({i \in 1..Len(ngrams) : ngrams[i] \in prior})
    IN m >= 3 /\ 10 * m >= 3 * Len(ngrams)

\* The sentences of sections 1..n of a section list that is not skipped
RECURSIVE SentencesUpTo(_, _)
SentencesUpTo(secs, n) ==
    IF n = 0 THEN <<>>
    ELSE SentencesUpTo(secs, n - 1)
         \o (IF DedupSkipsText(secs[n]) THEN <<>>
             ELSE SentencesOf(SplitParagraphs(secs[n].content)))

\* C12 as stated: after the pass, in every section that is not skipped, no
\* sentence has at least 3 of its 4-grams, making up at least 30% of them,
\* in the content that precedes it in the section sequence.
C12_NoOverlapLeft ==
    pc = "deduped" =>
        \A i \in 1..Len(sections) :
            ~DedupSkipsText(sections[i]) =>
                LET ss == SentencesUpTo(sections, i)
                    from == Len(SentencesUpTo(sections, i - 1)) + 1
                IN \A k \in from..Len(ss) :
                      ~Overlaps(extractNgrams(ss[k], NgramSize),
                                NgramsBefore(ss, k))

\* C12, amended: in every section that is not skipped, is not the first
\* content section and whose filtered content is longer than 100 characters,
\* no sentence of a filtered paragraph has at least 3 of its 4-grams, making
\* up at least 30% of them, among the 4-grams the pass recorded from the
\* sentences it kept before.
OrdinaryParagraphs(content) ==
    SelectSeq(SplitParagraphs(content), LAMBDA p :
        /\ ~IsHeaderParagraph(p)
        /\ ~IsForwardLooking(p)
        /\ ~IsClosingBoilerplate(p))

C12_NoOverlapInRewritten ==
    pc = "deduped" =>
        LET t == DedupTrace(dedupInput, 1, {}, TRUE)
        IN \A i \in 1..Len(sections) :
              (t[i].rewritten /\ ~t[i].first) =>
                  LET ss == SentencesOf(OrdinaryParagraphs(sections[i].content))
                  IN \A k \in 1..Len(ss) :
                        ~Overlaps(extractNgrams(ss[k], NgramSize),
                                  t[i].seenBefore \cup NgramsBefore(ss, k))

\* a later section lost a repeated sentence and was replaced
C12_Witness ==
    /\ pc = "deduped"
    /\ dedupInput[1].title = "Main Findings"
    /\ dedupInput[1].content = Sentence119
    /\ dedupInput[2].content = Sentence119 \o LongSentence
    /\ sections[2].content = LongSentence

Contains(content, text) ==
    \E i \in 0..(Len(content) - Len(text)) :
        SubSeq(content, i + 1, i + Len(text)) = text

\* C13: when the first content section holds "The committee reviewed 119
\* submissions in total." and the second holds "As noted, the committee
\* reviewed 119 submissions.", the second section no longer holds that
\* second sentence after the pass.
C13_RestatementRemoved ==
    ( /\ pc = "deduped"
      /\ ~DedupSkipsText(dedupInput[1])
      /\ ~DedupSkipsText(dedupInput[2])
      /\ Contains(dedupInput[1].content, Sentence119)
      /\ Contains(dedupInput[2].content, Restated119) )
    => ~Contains(sections[2].content, Restated119)
\* The level whose output a synthesis pass holds: 1 while and after the
\* sources are summarised, else the level of the last completion call
LevelDone == IF pc = "summarize" THEN 1 ELSE level

\* C14: one hierarchical synthesis pass of a profile with synthesisLevels = L
\* issues the level-1 summarisation calls, then one completion call for each
\* of the levels 2..L in increasing order and none above L, and returns the
\* output of level L; the quick profile issues no call above level 1.
C14_LevelsInOrder ==
    /\ [](level # 0 => /\ pc = "synth"
                       /\ level \in 2..intensityConfig.synthesisLevels)
    /\ [](cfg.intensity = "quick" => pc # "synth")
    /\ [][ /\ (level' # level /\ level' # 0) => level' = LevelDone + 1
           /\ (pc \in {"summarize", "synth"} /\ pc' = "afterSynth")
                  => LevelDone = intensityConfig.synthesisLevels ]_vars

\* the third level of a three-level profile has returned
C14_Witness ==
    /\ pc = "synth"
    /\ intensityConfig.synthesisLevels = 3
    /\ level = 3
\* search calls issued by the batch loop so far
SearchCalls == totalSearches + Len(batchResults)

\* C15 as stated: during and after the initial gathering stage the number of
\* gathered sources never exceeds maxSources, and the stage issues at most
\* maxSearchQueries search calls.
C15_SourcesWithinMax ==
    /\ Len(allSources) <= intensityConfig.maxSources
    /\ pc \in GatherPcs => SearchCalls <= intensityConfig.maxSearchQueries

\* C15, amended: until a gap-filling round adds its sources, the number of
\* gathered sources never exceeds maxSources; once it is reached the
\* gathering stage adds no source (and so starts no page fetch); the stage
\* issues at most maxSearchQueries search calls.
C15_GatherWithinMax ==
    /\ [](iteration = 1 => Len(allSources) <= intensityConfig.maxSources)
    /\ [](pc \in GatherPcs => SearchCalls <= intensityConfig.maxSearchQueries)
    /\ [][ (pc \in GatherPcs /\ Len(allSources) >= intensityConfig.maxSources)
              => (allSources' = allSources \/ outcome' = "rejected") ]_vars

\* maxSources is reached while queries of the plan are left
C15_Witness ==
    /\ pc = "batch"
    /\ Len(allSources) = intensityConfig.maxSources
    /\ Cardinality(seenUrls) = intensityConfig.maxSources
    /\ batchStart < totalQueries
\* C20: a source whose page fetch failed (fetchPageContent yielded '') has
\* empty content, whatever snippet its search result carried.
C20_FailedFetchLeavesContentEmpty ==
    \A x \in Range(allSources) \cup Range(newSources) :
        PageOf(x.url) = "" => x.content = ""
\* C16: for every completion response, createSearchPlan returns at most
\* N + 1 queries, N the target count; the first is the query itself and no
\* later one equals the query ignoring case.
C16_PlanStartsWithQuery ==
    pc = "batch" =>
        /\ Len(searchPlan) <= intensityConfig.maxSearchQueries + 1
        /\ searchPlan[1] = ResearchQuery
        /\ \A i \in 2..Len(searchPlan) :
              searchPlan[i].lower # ResearchQuery.lower

\* the response repeats the query in another case among its first N lines
C16_Witness ==
    /\ pc = "batch"
    /\ Len(planResponse) >= 2
    /\ planResponse[1].trimmed = "ai SAFETY"
    /\ planResponse[2] = PlainLine
    /\ searchPlan = <<ResearchQuery, Q("AI regulation", "ai regulation")>>
\* C17: whatever the outline completion call yields (a rejection, no
\* parsable array, elements without a string title, fewer than 3 sanitized
\* sections or a usable outline), the section loop runs over titles only,
\* the fixed fallback outline in the failure cases, and research() does not
\* reject because of the outline.
C17_OutlineFallback ==
    /\ err # "outline"
    /\ \A i \in 1..Len(outline) : outline[i] # NoTitle
\* C18: whatever the gap-analysis call yields (a rejection, unparsable
\* output, gap objects without suggestedQueries array or description
\* string), the gaps the adaptive loop works on are well-formed, none in the
\* failure cases, and research() does not reject because of a gap object.
C18_MalformedGapsIgnored ==
    /\ err # "gap"
    /\ \A i \in 1..Len(gaps) : gaps[i].wellFormed
\* C19: in every completion call that carries synthesis text, the synthesis
\* text in the prompt has at most MAX_CONTEXT_CHARS characters, for texts of
\* any length.
C19_SynthesisWithinBudget ==
    pc = "prompted" => prompt.chars <= MAX_CONTEXT_CHARS
\* positions at which report writing holds its source list
ReportWritingPcs == {"sections", "compress", "return"}

\* the lines of the References section of a section list, <<>> without one
ReferenceLines(secs) ==
    IF secs # <<>> /\ secs[Len(secs)].title = "References"
    THEN secs[Len(secs)].content.lines
    ELSE <<>>

\* the numbered lines enumerate the given sources at the same positions
Enumerates(lines, srcs) ==
    /\ Len(lines) = Len(srcs)
    /\ \A i \in 1..Len(lines) : lines[i].n = i /\ lines[i].url = srcs[i].url

\* C21: from the start of report generation until research() returns, the
\* numbered source list put into the report-writing prompts does not change,
\* the source array is not reordered, the lines of the appended References
\* section are that list, and the returned report.sources enumerates the same
\* sources at the same 1-based positions.
C21_SourceOrderFixed ==
    /\ [](pc \in ReportWritingPcs => Enumerates(sourceList, reportSources))
    /\ [](pc = "return" /\ cfg.reportDetailLevel # "standard" =>
             ReferenceLines(sections) = sourceList)
    /\ [][ /\ (pc \in ReportWritingPcs /\ pc' \in ReportWritingPcs) =>
                 sourceList' = sourceList /\ allSources' = allSources
           /\ (pc = "return" /\ outcome' = "resolved") =>
                 /\ Enumerates(sourceList, report'.sources)
                 /\ report'.sections = sections ]_vars

\* a section-by-section report over two sources is about to be returned
C21_Witness ==
    /\ pc = "return"
    /\ cfg.reportDetailLevel # "standard"
    /\ Len(sourceList) = 2
    /\ sourceList[1].url # sourceList[2].url
    /\ Len(ReferenceLines(sections)) = 2
\* The next statement research() executes is a cancellation checkpoint
\* (research 140/197, 219, 294; hierarchicalSynthesis 502, 514, 526;
\* searchForGaps 1374; the report writers 778, 837, 942, 1129;
\* compressSectionsForAnalysis 1477).
AtCheckpoint ==
    \/ pc \in {"batch", "postLoop", "report"}
    \/ pc = "loop" /\ iteration <= maxIterations
    \/ pc = "summarize" /\ sumI >= Len(allSources)
    \/ pc = "synth" /\ level < 4
    \/ /\ pc = "gapSearch"
       /\ gapIdx <= Len(gaps)
       /\ gaps[gapIdx].wellFormed
       /\ qIdx <= QueriesOf(gaps[gapIdx])
    \/ /\ pc = "sections"
       /\ (si <= Len(outline) \/ ExecSummaryIdx(sections) # 0)
    \/ pc = "compress" /\ ci <= Len(BodySections(sections))

\* C22: research() rejects with the cancellation error only at a checkpoint
\* that finds the abort flag set, and every checkpoint that finds it set
\* makes research() reject with exactly that error: no handler of a failed
\* search, compression, registry or outline call turns it into a degraded
\* result or another error.
C22_CancellationDistinguished ==
    /\ [](err = "cancelled" => outcome = "rejected" /\ aborted)
    /\ [][ /\ (err' = "cancelled" /\ err # "cancelled") =>
                 (aborted /\ AtCheckpoint)
           /\ (aborted /\ AtCheckpoint) =>
                 (outcome' = "rejected" /\ err' = "cancelled") ]_vars

\* a run aborted while the report was being written has rejected with the
\* cancellation error
C22_Witness ==
    /\ outcome = "rejected"
    /\ err = "cancelled"
    /\ abortStage = "writing"
    /\ cfg.reportDetailLevel # "standard"
\* no key of a call count has been used more than once
AtMostOnce(f) == \A k \in DOMAIN f : f[k] <= 1

\* C23: within one run fetchPageContent is called at most once per URL
\* (initial gathering and every gap-filling round together), each position
\* of the search plan and each query position of a gap-filling round is
\* issued to the search client at most once, whether or not the call fails;
\* a settled search of a batch is not issued again, every loop over
\* completion calls moves on after each call, and a failed completion call
\* that is not caught ends the run.
C23_NoRetry ==
    /\ [](AtMostOnce(calls.fetches))
    /\ [](AtMostOnce(calls.issued))
    /\ [](AtMostOnce(calls.gapIssued))
    /\ [][ /\ (pc = "searching" /\ pc' = "searching") =>
                 \A k \in 1..Len(batchResults) :
                     batchResults[k].st # "pending" =>
                         batchResults'[k] = batchResults[k]
           /\ (pc \in {"score", "summarize", "scoreNew"} /\ pc' = pc
                  /\ aborted' = aborted) =>
                 sumI' > sumI
           /\ (pc = "gapSearch" /\ pc' = pc /\ aborted' = aborted) =>
                 (gapIdx' > gapIdx \/ (gapIdx' = gapIdx /\ qIdx' > qIdx))
           /\ err' = "completion" => pc' = "done"
           /\ pc = "done" => pc' = "done" ]_vars

\* a gap-filling search has returned a URL whose page fetch had failed
\* during gathering: the URL has been fetched once
C23_Witness ==
    /\ pc = "gapSearch"
    /\ gapDup
    /\ \E u \in seenUrls : PageOf(u) = "" /\ calls.fetches[u] = 1
    /\ DOMAIN calls.gapIssued # {}
    /\ seenUrls = DOMAIN calls.fetches
\* the result lists of a batch, each cut to perSearch, one after the other
\* in the order of the batch's queries
RECURSIVE ResultsInQueryOrder(_, _)
ResultsInQueryOrder(results, perSearch) ==
    IF results = <<>> THEN <<>>
    ELSE Take(Head(results).urls, perSearch)
         \o ResultsInQueryOrder(Tail(results), perSearch)

\* C24: when a batch is processed, the sources appended are the unseen URLs
\* of the result lists read in the static order of the batch's queries
\* (first occurrences, up to maxSources), whatever the order in which the
\* search calls of the batch settled.
C24_QueryOrderNotCompletionOrder ==
    [][ (pc = "searching" /\ pc' = "batch") =>
           LET urls == FreshUrls(ResultsInQueryOrder(batchResults,
                                     intensityConfig.sourcesPerSearch), seenUrls)
               room == intensityConfig.maxSources - Len(allSources)
               added == Take(urls, room)
           IN allSources' = allSources \o [i \in 1..Len(added) |-> Source(added[i])]
      ]_vars

\* a batch of two searches with different results, the second query's call
\* settled first
C24_Witness ==
    /\ pc = "searching"
    /\ Len(batchResults) = 2
    /\ batchResults[1].at = 2
    /\ batchResults[2].at = 1
    /\ batchResults[1].urls # <<>>
    /\ batchResults[2].urls # <<>>
    /\ batchResults[1].urls[1] # batchResults[2].urls[1]

\* C25: while a search call of the current batch is pending, the source
\* list and the seen-URL set do not change; they change in the gathering
\* stage only in the step that follows the settling of every call.
C25_OnlyCoordinatorMutates ==
    [][ /\ (pc = "searching" /\ ~AllSettled(batchResults)) =>
              (allSources' = allSources /\ seenUrls' = seenUrls)
        /\ (pc \in GatherPcs /\ outcome' = "pending"
              /\ (allSources' # allSources \/ seenUrls' # seenUrls)) =>
              (pc = "searching" /\ Settled(batchResults) = Len(batchResults)
                 /\ pc' = "batch") ]_vars

\* one call of a batch of two has settled with results, the other is pending
C25_Witness ==
    /\ pc = "searching"
    /\ Len(batchResults) = 2
    /\ batchResults[1].st = "pending"
    /\ batchResults[2].st = "ok"
    /\ batchResults[2].urls # <<>>
    /\ allSources = <<>>
    /\ seenUrls = {}
\* C26: the gathering stage of a run that is not cancelled ends (relevance
\* scoring begins) only when every query of the search plan has been issued
\* to the search client, or maxSources has been reached.
C26_GatheringExhaustsPlan ==
    [][ (pc = "batch" /\ pc' = "score") =>
           \/ \A k \in 1..Len(searchPlan) : k \in DOMAIN calls.issued
           \/ Len(allSources) >= intensityConfig.maxSources ]_vars
\* the total length of the first n texts
RECURSIVE CharsUpTo(_, _)
CharsUpTo(texts, n) == IF n = 0 THEN 0 ELSE CharsUpTo(texts, n - 1) + texts[n]

\* C27: in theme synthesis every summary before the first one that pushes
\* the running total over the budget is included in full, that crossing
\* summary is included cut to the remaining budget with an ellipsis
\* appended, and every later summary is dropped; without a crossing summary
\* all are included in full.
C27_CrossingSummaryTruncated ==
    (pc = "prompted" /\ prompt.site = "synthesizeByTheme") =>
        LET texts == prompt.texts
            over == {i \in 1..Len(texts) : CharsUpTo(texts, i) > MAX_CONTEXT_CHARS}
        IN IF over = {} THEN prompt.parts = texts
           ELSE LET c == CHOOSE i \in over : \A j \in over : i <= j
                    remaining == MAX_CONTEXT_CHARS - CharsUpTo(texts, c - 1)
                IN prompt.parts =
                      SubSeq(texts, 1, c - 1) \o <<remaining + Len("...")>>
\* C28: in section-by-section mode the executive summary is not written
\* while the section loop runs (its section holds the sentinel, at the
\* index of its title in the outline); the call that writes it is issued
\* when every outline section has its entry in allSections; and the
\* returned report has, at every index of the outline, the section of that
\* outline title, the Executive Summary among them.
C28_ExecSummaryLastInPlace ==
    /\ [](pc \in {"sections", "compress"} =>
             /\ Len(sections) <= Len(outline)
             /\ \A i \in 1..Len(sections) :
                   /\ sections[i].title = outline[i]
                   /\ IsExecSummary(outline[i]) =>
                         sections[i].content = EXEC_SUMMARY_PLACEHOLDER)
    /\ [][ /\ (pc = "sections" /\ pc' = "return") =>
                 /\ Len(sections) = Len(outline)
                 /\ \A i \in 1..Len(outline) : sections[i].title = outline[i]
           /\ (pc = "return" /\ outcome' = "resolved") =>
                 \A i \in 1..Len(outline) :
                     report'.sections[i].title = outline[i] ]_vars

\* a report is about to be returned whose outline has the Executive Summary
\* first: the section stands first, written, before two written sections
C28_Witness ==
    /\ pc = "return"
    /\ Len(outline) >= 3
    /\ IsExecSummary(outline[1])
    /\ IsExecSummary(sections[1].title)
    /\ sections[1].content = Text(FALSE, {1})
    /\ sections[2].content = Text(FALSE, {})
    /\ Len(sections) = Len(outline) + 1
\* The sentences of a paragraph list that the stated rule keeps, and the
\* seen set it leaves: a sentence with at least 3 of its 4-grams in the seen
\* set, making up at least 30% of them, is dropped and adds nothing; any
\* other sentence is kept and adds all its 4-grams.
RECURSIVE KeptByRule(_, _)
KeptByRule(sentences, seen) ==
    IF sentences = <<>> THEN [kept |-> <<>>, seen |-> seen]
    ELSE LET ngrams == extractNgrams(Head(sentences), NgramSize)
         IN IF Overlaps(ngrams, seen)
            THEN KeptByRule(Tail(sentences), seen)
            ELSE LET rest == KeptByRule(Tail(sentences), seen \cup Range(ngrams))
                 IN [kept |-> <<Head(sentences)>> \o rest.kept, seen |-> rest.seen]

FirstContentIdx(secs) ==
    LET content == {i \in 1..Len(secs) : ~DedupSkipsText(secs[i])}
    IN IF content = {} THEN 0 ELSE CHOOSE i \in content : \A j \in content : i <= j

\* every sentence of a content, short ones included, paragraph by paragraph
RECURSIVE AllSentences(_)
AllSentences(paras) ==
    IF paras = <<>> THEN <<>>
    ELSE (IF Head(paras) = <<>> THEN <<>> ELSE SplitParts(Head(paras)))
         \o AllSentences(Tail(paras))

\* C30: the pass removes no sentence from the first content-bearing
\* section: every sentence of the section's original content is still in
\* the section after the pass.
C30_FirstSectionKeepsSentences ==
    (pc = "deduped" /\ FirstContentIdx(dedupInput) # 0) =>
        LET f == FirstContentIdx(dedupInput)
            original == AllSentences(SplitParagraphs(dedupInput[f].content))
        IN \A k \in 1..Len(original) : Contains(sections[f].content, original[k])
\* the words of a are words of b, in the order of b
RECURSIVE IsSubsequence(_, _)
IsSubsequence(a, b) ==
    IF a = <<>> THEN TRUE
    ELSE IF b = <<>> THEN FALSE
    ELSE IF Head(a) = Head(b) THEN IsSubsequence(Tail(a), Tail(b))
    ELSE IsSubsequence(a, Tail(b))

\* C31: the pass leaves the number, the order and the titles of the sections
\* unchanged, adds no text to a section (the words of the new content are
\* words of the old one, in their order), and leaves unchanged every section
\* whose title holds 'methodology' or 'references' and every section whose
\* content is the sentinel.
C31_DedupFrame ==
    pc \in {"deduped", "dedupedAgain"} =>
        /\ Len(sections) = Len(dedupInput)
        /\ \A i \in 1..Len(dedupInput) :
              /\ sections[i].title = dedupInput[i].title
              /\ IsSubsequence(sections[i].content, dedupInput[i].content)
              /\ ( \/ dedupInput[i].title \in {"Methodology Note", "References"}
                   \/ dedupInput[i].content = PLACEHOLDER_TEXT )
                    => sections[i] = dedupInput[i]

\* a methodology section keeps a short sentence and a forward-looking
\* paragraph that the pass strips elsewhere, while the section after it is
\* replaced by a shorter content
C31_Witness ==
    /\ pc = "deduped"
    /\ dedupInput[1].title = "Methodology Note"
    /\ dedupInput[1].content =
          ShortSentence \o ForwardSentence \o <<ParBreak>> \o LongSentence
    /\ sections[1] = dedupInput[1]
    /\ dedupInput[2].content = LongSentence \o <<ParBreak>>
    /\ sections[2] = Section("Key Trends & Developments", LongSentence)

\* C32: provided every completion, search and fetch call settles, every
\* invocation of research() eventually resolves or rejects; neither the
\* batch loop nor the adaptive loop nor the section loop runs forever.
C32_RunSettles == <>(outcome # "pending")

\* a run that went twice through the adaptive loop and wrote its report
\* section by section has resolved
C32_Witness ==
    /\ outcome = "resolved"
    /\ synthPasses = 2
    /\ cfg.reportDetailLevel = "detailed"
    /\ report.totalSearches > 1
    /\ Len(report.sections) > 1

\* C33: whenever the adaptive loop exits without error, the last synthesis
\* pass ran over the final master source list: since that pass started no
\* source was appended and the list was not sorted again.
C33_SynthesisOverFinalSources ==
    pc = "postLoop" => (synthPasses >= 1 /\ synthSources = allSources)

\* the loop is left after a second pass, which ran over the sources of the
\* gathering stage and of a gap-filling round
C33_Witness ==
    /\ pc = "postLoop"
    /\ synthPasses = 2
    /\ gapSearched
    /\ Len(allSources) = 3
    /\ synthSources = allSources

\* C34: every source of a returned report stands in report.sources at the
\* position it had in the list the last synthesis pass numbered as
\* [Source N]; dropping the sources of relevance below 2 shifts no source
\* that is kept.
C34_SourceNumbersKept ==
    outcome = "resolved" =>
        \A i \in 1..Len(report.sources) :
            /\ i <= Len(synthSources)
            /\ synthSources[i].url = report.sources[i].url

\* a report whose writer dropped a source of relevance 1 from the eleven
\* sources the synthesis pass had numbered
C34_Witness ==
    /\ outcome = "resolved"
    /\ Len(synthSources) = MinFilteredSources + 1
    /\ Len(report.sources) = MinFilteredSources
    /\ synthSources[Len(synthSources)].relevanceScore = 1

\* C35: the totalSearches of a returned report is the number of search
\* calls the run issued, in the batches and in every gap-filling round.
C35_TotalSearchesExact ==
    pc = "return" => totalSearches = calls.searches

\* C36: in every returned report metadata.totalSources is the length of
\* report.sources.
C36_TotalSourcesIsListLength ==
    outcome = "resolved" => report.totalSources = Len(report.sources)

\* C37: no section of a returned report has the sentinel as its content,
\* whatever outline and section texts the completion client returns.
C37_NoSentinelInReport ==
    outcome = "resolved" =>
        \A i \in 1..Len(report.sections) :
            report.sections[i].content # EXEC_SUMMARY_PLACEHOLDER

\* C38 as stated: in every returned report the number of sources gathered
\* in the run does not exceed the profile's maxSources.
C38_ReportWithinMaxSources ==
    outcome = "resolved" => report.totalSources <= intensityConfig.maxSources

\* C38, amended: the bound holds for the report of every run in which no
\* gap-filling round added sources (one synthesis pass), hence for every
\* quick run.
C38_ReportWithinMaxWithoutGapSources ==
    /\ (outcome = "resolved" /\ synthPasses <= 1)
           => report.totalSources <= intensityConfig.maxSources
    /\ (outcome = "resolved" /\ cfg.intensity = "quick") => synthPasses <= 1

\* a standard run whose gap-filling search found nothing new returned a
\* report with exactly maxSources sources
C38_Witness ==
    /\ outcome = "resolved"
    /\ cfg.intensity = "standard"
    /\ synthPasses = 1
    /\ gapSearched
    /\ report.totalSources = intensityConfig.maxSources

\* C39: every run that returns a report has executed at least one
\* hierarchical synthesis pass, for every profile, with adaptive research on
\* or off, and for every integer maxResearchIterations.
C39_ReportNeedsSynthesis ==
    outcome = "resolved" => synthPasses >= 1

\* C40: once a run has been cancelled and a new run started, neither the
\* settlement of the cancelled run nor its late progress callbacks change
\* the app state, the step log or the report of the new run: while the new
\* run is pending and not cancelled, the app is 'researching', no report is
\* set and the log holds steps of the new run only.
C40_NewRunUndisturbed ==
    LET cur == app.controller
    IN ( /\ Pending(cur)
         /\ ~app.runs[cur].signal
         /\ \E r \in 1..(cur - 1) : app.runs[r].signal )
       => /\ app.state = "researching"
          /\ app.report = 0
          /\ app.currentStep \in {0, cur}
          /\ \A i \in 1..Len(app.steps) : app.steps[i] = cur

====
